---- MODULE Spec2Model ----
(***************************************************************************)
(* Model of the dynamic MCP connection registry (strands_tools/mcp_client) *)
(* and of the tool catalog manager (strands_tools/tool_catalog_manager).   *)
(*                                                                         *)
(* Spec     : threads calling mcp_client(action=...) and executing wrapped *)
(*            MCP tools, interleaved at the granularity of the lock        *)
(*            sections and of the transport calls.                         *)
(* SpecCat  : one caller of the ToolCatalogManager with a clock (the       *)
(*            overview cache).                                             *)
(***************************************************************************)
EXTENDS Integers, Sequences, FiniteSets, TLC

VARIABLES
    _connections,         \* mcp_client._connections: connection_id -> ConnectionInfo (heap index, 0 = no key)
    infos,                \* every ConnectionInfo object ever constructed (the heap)
    registry,             \* agent.tool_registry: tool name -> connection_id the MCPTool wrapper is bound to
    catalog,              \* the catalog JSON file: [tools |-> the list of entries]
    _overview_cache,      \* ToolCatalogManager._overview_cache
    _overview_cache_time, \* ToolCatalogManager._overview_cache_time
    now,                  \* the wall clock (time.time / _now_iso)
    pc,                   \* per thread: position inside the operation it runs
    loc,                  \* per thread: parameters and locals of the operation
    sess,                 \* per thread: a `with mcp_client:` session is open
    ret,                  \* the call that returned in the step just taken: its arguments and its result
                          \* (NoResult: the step returned nothing)
    calls,                \* per thread: number of calls made so far
    hist,                 \* catalog caller's bookkeeping of what it registered / last observed
    module_globals,       \* API_TOOL_TIMEOUT_SECONDS and the two DEFAULT_MCP_* values, set at import
    params,               \* the timeout arguments of the connect call in progress and their merged values
    http_params,          \* the timeouts the last _create_transport_callable handed to the transport
    lock_owner,           \* the thread inside a `with _CONNECTION_LOCK:` section, or "none"
    pool,                 \* the multi-tool call in progress: what waits, what runs, the results so far
    RESEARCH_JOBS,        \* request_id -> ResearchJobState; one request id: <<>> or <<job>>
    RESEARCH_POLLERS,     \* request_id -> polling task: <<>> or <<"task">>
    poll_task,            \* the polling task: where _poll_research_job stands, its locals
    waiters,              \* the tool calls suspended on the job: _cancel_job and wait_for_completion
    cat_local             \* per thread, the catalog write in progress: the data it loaded

vars == <<_connections, infos, registry, catalog, _overview_cache, _overview_cache_time,
          now, pc, loc, sess, ret, calls, hist, module_globals, params, http_params,
          lock_owner, pool, RESEARCH_JOBS, RESEARCH_POLLERS, poll_task, waiters,
          cat_local>>

timeoutVars == <<module_globals, params, http_params>>

lockVars == <<lock_owner>>

poolVars == <<pool>>

researchVars == <<RESEARCH_JOBS, RESEARCH_POLLERS, poll_task, waiters>>

catRaceVars == <<cat_local>>

\* the variables of the separate specifications below, untouched by the mcp_client,
\* catalog and tool actions
sideVars == <<timeoutVars, lockVars, poolVars, researchVars, catRaceVars>>

\* per separate specification, the variables of the other ones
timeoutOthers == <<lockVars, poolVars, researchVars, catRaceVars>>
lockOthers == <<timeoutVars, poolVars, researchVars, catRaceVars>>
poolOthers == <<timeoutVars, lockVars, researchVars, catRaceVars>>
researchOthers == <<timeoutVars, lockVars, poolVars, catRaceVars>>
catRaceOthers == <<timeoutVars, lockVars, poolVars, researchVars>>

catVars == <<catalog, _overview_cache, _overview_cache_time>>

-----------------------------------------------------------------------------
(* Bounds *)

MaxInfos == 2            \* ConnectionInfo objects constructed in one run
MaxTime == 30            \* the clock stops advancing here (seconds)
TickSeconds == 15        \* the clock advances in steps of this many seconds
MaxBatch == 2            \* tools passed to one register_tools call
MaxSeconds == 9           \* the largest timeout a caller or the environment supplies
MaxPoolInvocations == 5   \* invocations in one multi-tool call
MaxAttempts == 3          \* the largest max_attempts a caller passes
MaxBackoff == 5           \* the largest max_backoff_seconds a caller passes
MaxCalls == 3            \* calls made in one run, by all threads together
MaxOther == 1            \* calls made by the second thread

Threads == {"T1", "T2"}
ConnIds == {"c1", "c2"}
ToolNames == {"t1", "t2"}
NoId == ""               \* connection_id not given (None / empty)
NoInfo == 0              \* _connections.get(...) is None

Transports == {"stdio", "sse", "streamable_http", "bogus"}
AgentKinds == {"none", "agent", "bare"}   \* no agent / a Strands agent / an object without tool_registry

\* The tools each remote server lists, in listing order.
ServerTools(c) == IF c = "c1" THEN <<"t1", "t2">> ELSE <<"t2">>

McpOrigin(c) == IF c = "c1" THEN "mcp:c1" ELSE "mcp:c2"
ServerDescription(c) == IF c = "c1" THEN "desc c1" ELSE "desc c2"

-----------------------------------------------------------------------------
(* Sequence helpers *)

Range(s) == {s[i] : i \in DOMAIN s}

RECURSIVE SetToSeq(_)
SetToSeq(S) == IF S = {} THEN <<>>
               ELSE LET x == CHOOSE y \in S : TRUE IN <<x>> \o SetToSeq(S \ {x})

\* list.append(x) for every x of xs not yet present (the dedup loops of load_tools)
RECURSIVE AppendNew(_, _)
AppendNew(lst, xs) ==
    IF xs = <<>> THEN lst
    ELSE LET x == Head(xs) IN
         AppendNew(IF x # "" /\ x \notin Range(lst) THEN Append(lst, x) ELSE lst, Tail(xs))

-----------------------------------------------------------------------------
(* Timeouts: the values Python computes with, and _cap_timeout *)

\* floats
Fin(n) == [k |-> "fin", n |-> n]
NaN == [k |-> "nan", n |-> 0]
Inf == [k |-> "inf", n |-> 0]
\* float(value) raised TypeError or ValueError
FloatRaised == [k |-> "raised", n |-> 0]

\* what a caller, a server_config or the environment can hold
None == [k |-> "None", n |-> 0]
Absent == [k |-> "absent", n |-> 0]          \* the key is not in the dict / the variable is unset
Num(n) == [k |-> "num", n |-> n]             \* an int or a float
Str(n) == [k |-> "str", n |-> n]             \* the text of a number
Junk == [k |-> "junk", n |-> 0]              \* a text that is no number
List == [k |-> "list", n |-> 0]              \* a value float() does not accept
NaNValue == [k |-> "nanvalue", n |-> 0]      \* float("nan") or the text "nan"
InfValue == [k |-> "infvalue", n |-> 0]      \* float("inf") or the text "inf"

\* float(value)
PyFloat(value) ==
    IF value.k \in {"num", "str"} THEN Fin(value.n)
    ELSE IF value.k = "nanvalue" THEN NaN
    ELSE IF value.k = "infvalue" THEN Inf
    ELSE FloatRaised

\* a < b on floats
PyLess(a, b) ==
    IF a.k = "nan" \/ b.k = "nan" THEN FALSE
    ELSE IF a.k = "inf" THEN FALSE
    ELSE IF b.k = "inf" THEN TRUE
    ELSE a.n < b.n

\* min(a, b): the first argument unless the second is smaller
PyMin(a, b) == IF PyLess(b, a) THEN b ELSE a

\* the values of API_TOOL_TIMEOUT_SECONDS: the default 7 and a lower one from the environment
ApiTimeoutValues == {3, 7}

\* the module-level assignments at import
ModuleGlobals(api, env_timeout, env_sse_read_timeout) ==
    [API_TOOL_TIMEOUT_SECONDS |-> api,
     DEFAULT_MCP_TIMEOUT |->
        PyMin(IF env_timeout = Absent THEN Fin(api) ELSE PyFloat(env_timeout), Fin(api)),
     DEFAULT_MCP_SSE_READ_TIMEOUT |->
        PyMin(IF env_sse_read_timeout = Absent THEN Fin(api) ELSE PyFloat(env_sse_read_timeout),
              Fin(api))]

\* (mutation) the value is converted but not capped
_cap_timeout_nocap(value, default) ==
    IF value = None THEN default
    ELSE IF PyFloat(value) = FloatRaised THEN default
    ELSE PyFloat(value)

_cap_timeout(value, default) ==
    IF value = None THEN default
    ELSE IF PyFloat(value) = FloatRaised THEN default
    ELSE PyMin(PyFloat(value), Fin(module_globals.API_TOOL_TIMEOUT_SECONDS))

\* the if / elif / else that fills params["timeout"] or params["sse_read_timeout"]
MergeTimeout(direct, configured, default) ==
    IF direct # None THEN _cap_timeout(direct, default)
    ELSE IF configured # Absent THEN _cap_timeout(configured, default)
    ELSE default

\* `if params.get(key): http_params[key] = timedelta(seconds=params[key])`
HttpParam(v) ==
    IF v = Fin(0) THEN Absent
    ELSE IF v.k \in {"nan", "inf"} THEN FloatRaised      \* timedelta raises
    ELSE v

\* no thread is inside _upsert_entry or _remove_entries
IdleLocal == [t \in Threads |-> [at |-> "idle", op |-> "none", names |-> {}, entry |-> <<>>,
                                 data |-> <<>>]]

\* no polling task has been created
NoTask == [at |-> "none", attempt |-> 0, delay |-> None, must_cancel |-> FALSE]

\* no tool call is suspended: _cancel_job is not awaiting the task, nobody waits for the event
NoWaiters == [cancel |-> FALSE, wait_for_completion |-> FALSE]

\* no multi-tool call is in progress
NoPool == [tool |-> "none", n |-> 0, pending |-> <<>>, running |-> {}, results |-> <<>>]

IdleParams == [stage |-> "idle", direct |-> None, configured |-> Absent,
               timeout |-> None, sse_read_timeout |-> None]
NoHttpParams == [transport |-> "none", timeout |-> Absent, sse_read_timeout |-> Absent]

-----------------------------------------------------------------------------
(* ConnectionInfo and the connection table *)

\* (transport, url and register_time are set once and never read by the registry)
ConnectionInfo(cid) ==
    [connection_id |-> cid,
     is_active |-> TRUE,
     last_error |-> "None",
     loaded_tool_names |-> <<>>,
     agent_loaded_tool_names |-> <<>>]

_get_connection(cid) == IF cid \in ConnIds THEN _connections[cid] ELSE NoInfo

\* The result envelope every handler returns, with the payload fields that are read below,
\* and the thread, action, connection_id, agent and load_into_agent_registry of the call.
Result(action, cid, status, text) ==
    [thread |-> "", action |-> action, connection_id |-> cid, agent |-> "none", flag |-> FALSE,
     status |-> status, text |-> text,
     connections |-> {}, cleaned_tools |-> <<>>, failed_tools |-> <<>>,
     catalog_tools |-> <<>>, agent_registry_loaded_tools |-> <<>>, value |-> <<>>]

NoResult == Result("none", NoId, "none", "")

\* (mutation) check_active is ignored
_validate_connection_noactive(cid, check_active) ==
    IF cid = NoId THEN "connection_id is required"
    ELSE IF _get_connection(cid) = NoInfo THEN "not found"
    ELSE "None"

\* _validate_connection: None when the connection passes, else the error text
_validate_connection(cid, check_active) ==
    IF cid = NoId THEN "connection_id is required"
    ELSE IF _get_connection(cid) = NoInfo THEN "not found"
    ELSE IF check_active /\ ~infos[_get_connection(cid)].is_active THEN "is not active"
    ELSE "None"

\* _create_transport_callable: "ok" or the ValueError it raises
_create_transport_callable(transport, has_param) ==
    IF transport = "stdio" THEN (IF has_param THEN "ok" ELSE "command is required")
    ELSE IF transport = "sse" THEN (IF has_param THEN "ok" ELSE "server_url is required")
    ELSE IF transport = "streamable_http" THEN (IF has_param THEN "ok" ELSE "server_url is required")
    ELSE "Unsupported transport"

\* the connections list_connections reports, computed from a table and a heap
ListedConnections(conns, heap) ==
    {[connection_id |-> c,
      is_active |-> heap[conns[c]].is_active,
      last_error |-> heap[conns[c]].last_error,
      loaded_tools_count |-> Len(heap[conns[c]].loaded_tool_names),
      agent_loaded_tools_count |-> Len(heap[conns[c]].agent_loaded_tool_names)]
     : c \in {d \in ConnIds : conns[d] # NoInfo}}

\* (mutation) no try/except around the dispatch
mcp_client_result_reraise(r) == r

\* the try/except around the whole of mcp_client: a raised exception becomes an error envelope
mcp_client_result(r) ==
    IF r.status = "raised"
    THEN Result(r.action, r.connection_id, "error", "Error in mcp_client")
    ELSE r

IdleLoc == [action |-> "none", connection_id |-> NoId, agent |-> "none", flag |-> FALSE,
            transport_ok |-> FALSE, config |-> NoInfo,
            tools |-> <<>>, names |-> <<>>, loaded |-> <<>>, tool_name |-> ""]

\* a handler returns r to the caller of mcp_client
Return(t, r) ==
    /\ ret' = [mcp_client_result(r) EXCEPT !.thread = t]
    /\ pc' = [pc EXCEPT ![t] = "idle"]
    /\ loc' = [loc EXCEPT ![t] = IdleLoc]

Goto(t, label, l) ==
    /\ pc' = [pc EXCEPT ![t] = label]
    /\ loc' = [loc EXCEPT ![t] = l]
    /\ ret' = NoResult

\* (mutation) leaving the block does not stop the client
SessionExit_leak(s, t) == s

\* leaving a `with mcp_client:` block, by its end, a return or an exception
SessionExit(s, t) == [s EXCEPT ![t] = FALSE]

\* the call budget: the first thread is the main caller, the second one interferes
CanCall(t) ==
    /\ calls["T1"] + calls["T2"] < MaxCalls
    /\ t = "T2" => calls[t] < MaxOther

\* (mutation) the existence check is skipped
ConnectionExists_never(conns, heap, cid) == FALSE

\* the existence check of _connect_to_server
ConnectionExists(conns, heap, cid) == conns[cid] # NoInfo /\ heap[conns[cid]].is_active

\* (mutation) the except branch pops the key
ConnectFailureTable_drop(conns, cid) == [conns EXCEPT ![cid] = NoInfo]

\* what the except branch of _connect_to_server leaves in the connection table
ConnectFailureTable(conns, cid) == conns

\* (mutation) the agent check is missing
AgentRequired_never(flag, agent) == FALSE

\* the first validation of _load_tools_to_agent
AgentRequired(flag, agent) == flag /\ agent = "none"

Connecting == {t \in Threads : pc[t] \in {"connect_open", "connect_list", "connect_store"}}

-----------------------------------------------------------------------------
(* The tool catalog manager: pure parts *)

DEFAULT_OVERVIEW_CACHE_TTL_SECONDS == 30

DEFAULT_CATEGORY_ORDER ==
    <<"built_in", "dynamically_loaded", "mcp_tools", "strands_tools", "strands_fun_tools",
      "strands_google", "fda", "pubmed", "perplexity", "custom", "mcp_servers", "openapi_specs">>

Descriptions == {"d1", "d2"}

\* The discovery manifest file the overview merges in (read-only): one MCP server, nothing else.
DiscoveryManifest == [loadable_tools |-> <<>>, mcp_servers |-> <<"srv1">>, openapi_specs |-> <<>>]

\* dict.update / {**old, **new}
DictUpdate(old, new) ==
    [f \in DOMAIN old \cup DOMAIN new |-> IF f \in DOMAIN new THEN new[f] ELSE old[f]]

\* the entry register_entry builds
RegisterEntryDict(name, description, origin, category) ==
    [name |-> name, description |-> description, input_schema |-> "schema", path |-> "None",
     origin |-> origin, category |-> IF category = "" THEN origin ELSE category]

\* the entry _build_entry builds from a tool object
_build_entry(tool_obj, origin, category) ==
    [name |-> tool_obj.name, description |-> tool_obj.description, input_schema |-> "schema",
     input_summary |-> "summary", input_schema_hash |-> "hash", path |-> "tool.py",
     origin |-> origin, category |-> IF category = "" THEN origin ELSE category]

\* index of the first entry called name, 0 when there is none
FirstIndex(tools, name) ==
    IF \E i \in DOMAIN tools : tools[i].name = name
    THEN CHOOSE i \in DOMAIN tools :
            /\ tools[i].name = name
            /\ \A j \in DOMAIN tools : tools[j].name = name => i <= j
    ELSE 0

\* (mutation) the stored entry is replaced by the new one
UpsertMerge_replace(existing, entry) == entry

\* how _upsert_entry combines the stored entry with the new one
UpsertMerge(existing, entry) == DictUpdate(existing, entry)

\* (mutation) the entry is always appended
_upsert_entry_append(tools, entry) == Append(tools, entry)

\* the tools list _upsert_entry writes (entry.name is not empty)
_upsert_entry(tools, entry) ==
    LET i == FirstIndex(tools, entry.name) IN
    IF i # 0 THEN [tools EXCEPT ![i] = UpsertMerge(@, entry)] ELSE Append(tools, entry)

\* the tools list _remove_entries writes
_remove_entries(tools, names) == SelectSeq(tools, LAMBDA e : e.name \notin names)

\* the tools list register_tools writes: tool_index is keyed by name, in insertion order
RECURSIVE register_tools_index(_, _)
register_tools_index(tools, entries) ==
    IF entries = <<>> THEN tools
    ELSE LET e == Head(entries)
             i == FirstIndex(tools, e.name) IN
         register_tools_index(IF i # 0 THEN [tools EXCEPT ![i] = DictUpdate(@, e)]
                              ELSE Append(tools, e),
                              Tail(entries))

\* get_tool_details: <<entry>> or <<>> for None; the catalog first, then the manifest
get_tool_details(tools, tool_name) ==
    IF tool_name = "" THEN <<>>
    ELSE IF FirstIndex(tools, tool_name) # 0
    THEN <<tools[FirstIndex(tools, tool_name)]>>
    ELSE IF tool_name \in Range(DiscoveryManifest.mcp_servers)
    THEN <<[name |-> tool_name, description |-> "", input_schema |-> "None", path |-> "None",
            origin |-> "mcp_server", category |-> "mcp_servers", status |-> "available"]>>
    ELSE <<>>

\* the (category_id, item) pairs build_catalog_overview collects, in insertion order:
\* a tool_info dict per catalog entry, a plain string per MCP server of the manifest
OverviewItems(tools) ==
    [i \in 1..Len(tools) |->
        [category |-> tools[i].category, is_dict |-> TRUE, name |-> tools[i].name]]
    \o
    [i \in 1..Len(DiscoveryManifest.mcp_servers) |->
        [category |-> "mcp_servers", is_dict |-> FALSE, name |-> DiscoveryManifest.mcp_servers[i]]]

RECURSIVE Dedup(_)
Dedup(s) == IF s = <<>> THEN <<>>
            ELSE <<Head(s)>> \o Dedup(SelectSeq(Tail(s), LAMBDA x : x # Head(s)))

\* ordered_categories: the configured order first, then the rest in insertion order
OrderedCategoryIds(items) ==
    LET ids == Dedup([i \in 1..Len(items) |-> items[i].category]) IN
    SelectSeq(DEFAULT_CATEGORY_ORDER, LAMBDA c : c \in Range(ids))
    \o SelectSeq(ids, LAMBDA c : c \notin Range(DEFAULT_CATEGORY_ORDER))

\* sorted(set(tools)) raises TypeError when a member is a dict (unhashable)
OverviewRaises(tools) == \E i \in DOMAIN OverviewItems(tools) : OverviewItems(tools)[i].is_dict

\* the result dict of a recomputation at time clock
ComputeOverview(tools, clock) ==
    LET items == OverviewItems(tools)
        ids == OrderedCategoryIds(items) IN
    [generated_at |-> clock,
     categories |-> [k \in 1..Len(ids) |->
        LET names == {items[i].name : i \in {j \in DOMAIN items : items[j].category = ids[k]}} IN
        [id |-> ids[k], tools |-> names, count |-> Cardinality(names)]]]

\* the cache test at the head of build_catalog_overview
CacheFresh(cache, cache_time, clock, ttl) ==
    /\ cache # <<>>
    /\ cache_time # <<>>
    /\ clock - cache_time[1] < ttl

\* _write_catalog: the file is replaced and the overview cache invalidated
_write_catalog(tools) ==
    /\ catalog' = [tools |-> tools]
    /\ _overview_cache' = <<>>
    /\ _overview_cache_time' = <<>>

-----------------------------------------------------------------------------
(* connect *)

\* mcp_client(action="connect") up to the existence check of _connect_to_server
Connect_Check(t) ==
    /\ pc[t] = "idle"
    /\ CanCall(t)
    /\ calls' = [calls EXCEPT ![t] = @ + 1]
    /\ \E cid \in ConnIds \cup {NoId}, tr \in Transports, hp \in BOOLEAN, server_config \in {"dict", "bad"} :
         LET l == [IdleLoc EXCEPT !.action = "connect", !.connection_id = cid,
                                  !.transport_ok = (_create_transport_callable(tr, hp) = "ok")] IN
         IF server_config = "bad"     \* `"transport" in server_config` raises TypeError
         THEN /\ tr = "stdio" /\ hp
              /\ Return(t, Result("connect", cid, "raised", "server_config is not a mapping"))
         ELSE IF cid = NoId
         THEN Return(t, Result("connect", cid, "error", "connection_id is required"))
         ELSE IF ConnectionExists(_connections, infos, cid)
         THEN Return(t, Result("connect", cid, "error", "already exists and is active"))
         ELSE /\ Len(infos) + Cardinality(Connecting) < MaxInfos
              /\ Goto(t, "connect_open", l)
    /\ UNCHANGED <<_connections, infos, registry, catVars, now, sess, hist>>
    /\ UNCHANGED sideVars

\* transport construction, MCPClient(...), and entering `with mcp_client:`
Connect_Open(t) ==
    /\ pc[t] = "connect_open"
    /\ IF ~loc[t].transport_ok     \* _create_transport_callable raises ValueError
       THEN /\ Return(t, Result("connect", loc[t].connection_id, "error", "Connection failed"))
            /\ _connections' = ConnectFailureTable(_connections, loc[t].connection_id)
            /\ UNCHANGED sess
       ELSE \E started \in BOOLEAN :
              IF started
              THEN /\ Goto(t, "connect_list", loc[t])
                   /\ sess' = [sess EXCEPT ![t] = TRUE]
                   /\ UNCHANGED _connections
              ELSE /\ Return(t, Result("connect", loc[t].connection_id, "error", "Connection failed"))
                   /\ _connections' = ConnectFailureTable(_connections, loc[t].connection_id)
                   /\ UNCHANGED sess
    /\ UNCHANGED <<infos, registry, catVars, now, calls, hist>>
    /\ UNCHANGED sideVars

\* the list_tools probe and leaving the `with` block
Connect_List(t) ==
    /\ pc[t] = "connect_list"
    /\ sess' = SessionExit(sess, t)
    /\ \E listed \in BOOLEAN :
         IF listed
         THEN /\ Goto(t, "connect_store", [loc[t] EXCEPT !.tools = ServerTools(loc[t].connection_id)])
              /\ UNCHANGED _connections
         ELSE /\ Return(t, Result("connect", loc[t].connection_id, "error", "Connection failed"))
              /\ _connections' = ConnectFailureTable(_connections, loc[t].connection_id)
    /\ UNCHANGED <<infos, registry, catVars, now, calls, hist>>
    /\ UNCHANGED sideVars

\* (mutation) the record is stored already marked inactive
ConnectStoreInfo_inactive(cid) == [ConnectionInfo(cid) EXCEPT !.is_active = FALSE]

\* the ConnectionInfo _connect_to_server constructs and stores
ConnectStoreInfo(cid) == ConnectionInfo(cid)

\* ConnectionInfo(...) is stored under the lock and success is returned
Connect_Store(t) ==
    /\ pc[t] = "connect_store"
    /\ infos' = Append(infos, ConnectStoreInfo(loc[t].connection_id))
    /\ _connections' = [_connections EXCEPT ![loc[t].connection_id] = Len(infos) + 1]
    /\ Return(t, [Result("connect", loc[t].connection_id, "success", "Connected")
                    EXCEPT !.catalog_tools = loc[t].tools])
    /\ UNCHANGED <<registry, catVars, now, sess, calls, hist>>
    /\ UNCHANGED sideVars

-----------------------------------------------------------------------------
(* list_connections *)

_list_active_connections(t) ==
    /\ pc[t] = "idle"
    /\ CanCall(t)
    /\ calls' = [calls EXCEPT ![t] = @ + 1]
    /\ Return(t, [Result("list_connections", NoId, "success", "Found connections")
                    EXCEPT !.connections = ListedConnections(_connections, infos)])
    /\ UNCHANGED <<_connections, infos, registry, catVars, now, sess, hist>>
    /\ UNCHANGED sideVars

\* any other action string: the final else of mcp_client
UnknownAction(t) ==
    /\ pc[t] = "idle"
    /\ CanCall(t)
    /\ calls' = [calls EXCEPT ![t] = @ + 1]
    /\ Return(t, Result("unknown", NoId, "error", "Unknown action"))
    /\ UNCHANGED <<_connections, infos, registry, catVars, now, sess, hist>>
    /\ UNCHANGED sideVars

-----------------------------------------------------------------------------
(* disconnect *)

\* _disconnect_from_server up to the end of _validate_connection
Disconnect_Validate(t) ==
    /\ pc[t] = "idle"
    /\ CanCall(t)
    /\ calls' = [calls EXCEPT ![t] = @ + 1]
    /\ \E cid \in ConnIds \cup {NoId}, agent \in AgentKinds :
         LET why == _validate_connection(cid, FALSE)
             l == [IdleLoc EXCEPT !.action = "disconnect", !.connection_id = cid, !.agent = agent] IN
         IF why # "None"
         THEN Return(t, Result("disconnect", cid, "error", why))
         ELSE Goto(t, "disconnect_remove", l)
    /\ UNCHANGED <<_connections, infos, registry, catVars, now, sess, hist>>
    /\ UNCHANGED sideVars

\* what the locked section of _disconnect_from_server leaves in the table
DisconnectTable(conns, cid) == [conns EXCEPT ![cid] = NoInfo]

\* (mutation) disconnect also removes the connection's catalog entries
DisconnectCatalog_remove(cat, names) == [tools |-> _remove_entries(cat.tools, names)]

\* what disconnect does to the catalog file: nothing
DisconnectCatalog(cat, names) == cat

\* the locked section: copy the name lists, del _connections[connection_id]
Disconnect_Remove(t) ==
    /\ pc[t] = "disconnect_remove"
    /\ LET cid == loc[t].connection_id
           config == _connections[cid] IN
       IF config = NoInfo
       THEN /\ Return(t, Result("disconnect", cid, "error", "Disconnect failed"))   \* KeyError
            /\ UNCHANGED <<_connections, catalog>>
       ELSE /\ _connections' = DisconnectTable(_connections, cid)
            /\ catalog' = DisconnectCatalog(catalog, Range(infos[config].loaded_tool_names))
            /\ IF loc[t].agent # "none" /\ infos[config].agent_loaded_tool_names # <<>>
               THEN Goto(t, "disconnect_cleanup",
                         [loc[t] EXCEPT !.config = config,
                                        !.names = infos[config].agent_loaded_tool_names])
               ELSE Return(t, [Result("disconnect", cid, "success", "Disconnected")
                                 EXCEPT !.agent = loc[t].agent])
    /\ UNCHANGED <<infos, registry, _overview_cache, _overview_cache_time, now, sess, calls, hist>>
    /\ UNCHANGED sideVars

\* the subsequence of names whose members are in S
RECURSIVE Filter(_, _)
Filter(names, S) ==
    IF names = <<>> THEN <<>>
    ELSE IF Head(names) \in S THEN <<Head(names)>> \o Filter(Tail(names), S)
    ELSE Filter(Tail(names), S)

\* a failed_tools member: the bare name when the agent has no tool_registry,
\* else the name followed by the exception text
FailedEntry(name, agent) == [name |-> name, detail |-> IF agent = "bare" THEN "" ELSE "error"]

\* (mutation) the loop ends at the first name that fails
CleanupReport_stop(names, failing, agent) ==
    LET bad == {i \in DOMAIN names : names[i] \in failing}
        k == IF bad = {} THEN Len(names) + 1
             ELSE CHOOSE i \in bad : \A j \in bad : i <= j IN
    [cleaned_tools |-> SubSeq(names, 1, k - 1),
     failed_tools |-> IF k <= Len(names) THEN <<FailedEntry(names[k], agent)>> ELSE <<>>]

\* the two lists _clean_up_tools_from_agent returns when the names in failing fail
CleanupReport(names, failing, agent) ==
    [cleaned_tools |-> Filter(names, Range(names) \ failing),
     failed_tools |-> [i \in DOMAIN Filter(names, failing) |->
                         FailedEntry(Filter(names, failing)[i], agent)]]

\* _clean_up_tools_from_agent: unregister each name, collecting successes and failures
Disconnect_Cleanup(t) ==
    /\ pc[t] = "disconnect_cleanup"
    /\ LET names == loc[t].names IN
       \E failing \in SUBSET Range(names) :
         /\ loc[t].agent = "bare" => failing = Range(names)
         /\ registry' = [n \in ToolNames |->
                            IF n \in Range(names) \ failing THEN "none" ELSE registry[n]]
         /\ Return(t, [Result("disconnect", loc[t].connection_id, "success", "Disconnected")
                         EXCEPT !.agent = loc[t].agent,
                                !.cleaned_tools = CleanupReport(names, failing, loc[t].agent).cleaned_tools,
                                !.failed_tools = CleanupReport(names, failing, loc[t].agent).failed_tools])
    /\ UNCHANGED <<_connections, infos, catVars, now, sess, calls, hist>>
    /\ UNCHANGED sideVars

-----------------------------------------------------------------------------
(* list_tools, call_tool, and the prompt / resource actions *)

RemoteActions == {"list_tools", "call_tool", "list_prompts", "get_prompt",
                  "list_resources", "list_resource_templates", "read_resource"}

\* the actions that require tool_name / prompt_name / resource_uri
NeedsArgument == {"call_tool", "get_prompt", "read_resource"}

\* the handler up to the end of _validate_connection(check_active=True)
Remote_Validate(t) ==
    /\ pc[t] = "idle"
    /\ CanCall(t)
    /\ calls' = [calls EXCEPT ![t] = @ + 1]
    /\ \E action \in RemoteActions, cid \in ConnIds \cup {NoId}, has_arg \in BOOLEAN :
         /\ action \notin NeedsArgument => has_arg
         /\ LET why == _validate_connection(cid, TRUE)
                l == [IdleLoc EXCEPT !.action = action, !.connection_id = cid] IN
            IF action \in NeedsArgument /\ ~has_arg
            THEN Return(t, Result(action, cid, "error", "argument is required"))
            ELSE IF why # "None"
            THEN Return(t, Result(action, cid, "error", why))
            ELSE Goto(t, "remote_open", l)
    /\ UNCHANGED <<_connections, infos, registry, catVars, now, sess, hist>>
    /\ UNCHANGED sideVars

\* config = _get_connection(connection_id); entering `with config.mcp_client:`
Remote_Open(t) ==
    /\ pc[t] = "remote_open"
    /\ LET cid == loc[t].connection_id
           config == _get_connection(cid) IN
       IF config = NoInfo
       THEN /\ Return(t, Result(loc[t].action, cid, "error", "Failed: NoneType has no mcp_client"))
            /\ UNCHANGED sess
       ELSE \E started \in BOOLEAN, args_ok \in BOOLEAN :
              IF loc[t].action = "get_prompt" /\ ~args_ok
              THEN /\ Return(t, Result(loc[t].action, cid, "error", "prompt_args values must be strings"))
                   /\ UNCHANGED sess
              ELSE IF started
              THEN /\ Goto(t, "remote_call", [loc[t] EXCEPT !.config = config])
                   /\ sess' = [sess EXCEPT ![t] = TRUE]
              ELSE /\ Return(t, Result(loc[t].action, cid, "error", "Failed"))
                   /\ UNCHANGED sess
    /\ UNCHANGED <<_connections, infos, registry, catVars, now, calls, hist>>
    /\ UNCHANGED sideVars

\* (mutation) the except branch of call_tool marks the connection inactive
CallToolOnError_mark(info) == [info EXCEPT !.is_active = FALSE, !.last_error = "error"]

\* what a raising remote call of call_tool does to the ConnectionInfo: nothing
CallToolOnError(info) == info

\* the remote call and leaving the `with` block
Remote_Call(t) ==
    /\ pc[t] = "remote_call"
    /\ sess' = SessionExit(sess, t)
    /\ \E outcome \in {"success", "error", "raise"} :
         /\ outcome = "error" => loc[t].action = "call_tool"    \* the ToolResult of the SDK
         /\ infos' = IF outcome = "raise" /\ loc[t].action = "call_tool"
                     THEN [infos EXCEPT ![loc[t].config] = CallToolOnError(@)]
                     ELSE infos
         /\ Return(t, Result(loc[t].action, loc[t].connection_id,
                             IF outcome = "raise" THEN "error" ELSE outcome,
                             IF outcome = "raise" THEN "Failed: remote call raised"
                             ELSE "remote result"))
    /\ UNCHANGED <<_connections, registry, catVars, now, calls, hist>>
    /\ UNCHANGED sideVars

-----------------------------------------------------------------------------
(* load_tools *)

LoadResult(t, status, text) ==
    [Result("load_tools", loc[t].connection_id, status, text)
        EXCEPT !.agent = loc[t].agent, !.flag = loc[t].flag]

\* _load_tools_to_agent up to the transport: the three validations
LoadTools_Validate(t) ==
    /\ pc[t] = "idle"
    /\ CanCall(t)
    /\ calls' = [calls EXCEPT ![t] = @ + 1]
    /\ \E cid \in ConnIds \cup {NoId}, agent \in AgentKinds, flag \in BOOLEAN :
         LET why == _validate_connection(cid, TRUE)
             l == [IdleLoc EXCEPT !.action = "load_tools", !.connection_id = cid,
                                  !.agent = agent, !.flag = flag] IN
         IF AgentRequired(flag, agent)
         THEN Return(t, [Result("load_tools", cid, "error", "agent instance is required")
                           EXCEPT !.agent = agent, !.flag = flag])
         ELSE IF why # "None"
         THEN Return(t, [Result("load_tools", cid, "error", why) EXCEPT !.agent = agent, !.flag = flag])
         ELSE IF flag /\ agent = "bare"
         THEN Return(t, [Result("load_tools", cid, "error", "Agent does not have a tool registry")
                           EXCEPT !.agent = agent, !.flag = flag])
         ELSE Goto(t, "load_open", l)
    /\ UNCHANGED <<_connections, infos, registry, catVars, now, sess, hist>>
    /\ UNCHANGED sideVars

\* config = _get_connection(connection_id); entering `with config.mcp_client:`
LoadTools_Open(t) ==
    /\ pc[t] = "load_open"
    /\ LET cid == loc[t].connection_id
           config == _get_connection(cid) IN
       IF config = NoInfo
       THEN /\ Return(t, LoadResult(t, "error", "Failed: NoneType has no mcp_client"))
            /\ UNCHANGED sess
       ELSE \E started \in BOOLEAN :
              IF started
              THEN /\ Goto(t, "load_list", [loc[t] EXCEPT !.config = config])
                   /\ sess' = [sess EXCEPT ![t] = TRUE]
              ELSE /\ Return(t, LoadResult(t, "error", "Failed to load tools"))
                   /\ UNCHANGED sess
    /\ UNCHANGED <<_connections, infos, registry, catVars, now, calls, hist>>
    /\ UNCHANGED sideVars

\* list_tools_sync and leaving the `with` block
LoadTools_List(t) ==
    /\ pc[t] = "load_list"
    /\ sess' = SessionExit(sess, t)
    /\ \E listed \in BOOLEAN :
         IF listed
         THEN Goto(t, "load_catalog", [loc[t] EXCEPT !.tools = ServerTools(loc[t].connection_id)])
         ELSE Return(t, LoadResult(t, "error", "Failed to load tools"))
    /\ UNCHANGED <<_connections, infos, registry, catVars, now, calls, hist>>
    /\ UNCHANGED sideVars

\* the catalog after register_entry has been called for each of names, in order
RECURSIVE RegisterMcpEntries(_, _, _)
RegisterMcpEntries(tools, cid, names) ==
    IF names = <<>> THEN tools
    ELSE RegisterMcpEntries(
            _upsert_entry(tools, RegisterEntryDict(Head(names), ServerDescription(cid),
                                                   McpOrigin(cid), "mcp_tools")),
            cid, Tail(names))

\* _register_mcp_tools_in_catalog: register_entry per tool; the first exception ends
\* the loop and is swallowed (logger.debug)
LoadTools_Catalog(t) ==
    /\ pc[t] = "load_catalog"
    /\ \E written \in 0..Len(loc[t].tools) :
         IF written = 0
         THEN UNCHANGED catVars
         ELSE _write_catalog(RegisterMcpEntries(catalog.tools, loc[t].connection_id,
                                                SubSeq(loc[t].tools, 1, written)))
    /\ Goto(t, IF loc[t].flag THEN "load_agent" ELSE "load_update",
            [loc[t] EXCEPT !.names = loc[t].tools])
    /\ UNCHANGED <<_connections, infos, registry, now, sess, calls, hist>>
    /\ UNCHANGED sideVars

\* what registering the wrappers of the tools in ok does to the agent registry
RegisterWrappers(reg, cid, ok) == [n \in ToolNames |-> IF n \in ok THEN cid ELSE reg[n]]

\* the loop wrapping each tool in MCPTool and calling agent.tool_registry.register_tool;
\* a registration that raises goes to skipped_tools
LoadTools_Agent(t) ==
    /\ pc[t] = "load_agent"
    /\ \E ok \in SUBSET Range(loc[t].tools) :
         /\ registry' = RegisterWrappers(registry, loc[t].connection_id, ok)
         /\ Goto(t, "load_update", [loc[t] EXCEPT !.loaded = Filter(loc[t].tools, ok)])
    /\ UNCHANGED <<_connections, infos, catVars, now, sess, calls, hist>>
    /\ UNCHANGED sideVars

\* (mutation) the names are appended without looking at the list
DedupNames_extend(existing, names) == existing \o names

\* one of the two loops under _CONNECTION_LOCK: append each name the list does not hold yet
DedupNames(existing, names) == AppendNew(existing, names)

\* (mutation) only the agent list is updated
LoadToolsUpdate_forget(info, catalog_tool_names, loaded_into_agent) ==
    [info EXCEPT !.agent_loaded_tool_names = AppendNew(@, loaded_into_agent)]

\* the ConnectionInfo after the locked update of its two name lists
LoadToolsUpdate(info, catalog_tool_names, loaded_into_agent) ==
    [info EXCEPT !.loaded_tool_names = DedupNames(@, catalog_tool_names),
                 !.agent_loaded_tool_names = DedupNames(@, loaded_into_agent)]

LoadTools_Update(t) ==
    /\ pc[t] = "load_update"
    /\ infos' = [infos EXCEPT ![loc[t].config] = LoadToolsUpdate(@, loc[t].names, loc[t].loaded)]
    /\ Return(t, [LoadResult(t, "success", "Registered MCP tools in catalog")
                    EXCEPT !.catalog_tools = loc[t].names,
                           !.agent_registry_loaded_tools = loc[t].loaded])
    /\ UNCHANGED <<_connections, registry, catVars, now, sess, calls, hist>>
    /\ UNCHANGED sideVars

-----------------------------------------------------------------------------
(* MCPTool.stream: the agent executes a wrapped MCP tool *)

\* (mutation) the wrapper does not look at is_active
StreamCheck_noactive(config, heap) == IF config = NoInfo THEN "not found" ELSE "None"

\* the two checks at the head of MCPTool.stream: None, or the error text
StreamCheck(config, heap) ==
    IF config = NoInfo THEN "not found"
    ELSE IF ~heap[config].is_active THEN "is not active"
    ELSE "None"

\* config = _get_connection(self._connection_id) and the two checks
Stream_Get(t) ==
    /\ pc[t] = "idle"
    /\ CanCall(t)
    /\ calls' = [calls EXCEPT ![t] = @ + 1]
    /\ \E n \in ToolNames :
         /\ registry[n] # "none"
         /\ LET cid == registry[n]
                config == _get_connection(cid)
                l == [IdleLoc EXCEPT !.action = "stream", !.connection_id = cid,
                                     !.tool_name = n, !.config = config] IN
            IF StreamCheck(config, infos) # "None"
            THEN Return(t, Result("stream", cid, "error", StreamCheck(config, infos)))
            ELSE Goto(t, "stream_open", l)
    /\ UNCHANGED <<_connections, infos, registry, catVars, now, sess, hist>>
    /\ UNCHANGED sideVars

\* entering `with config.mcp_client:`
Stream_Open(t) ==
    /\ pc[t] = "stream_open"
    /\ \E started \in BOOLEAN :
         IF started
         THEN /\ Goto(t, "stream_call", loc[t])
              /\ sess' = [sess EXCEPT ![t] = TRUE]
         ELSE /\ Goto(t, "stream_except", loc[t])
              /\ UNCHANGED sess
    /\ UNCHANGED <<_connections, infos, registry, catVars, now, calls, hist>>
    /\ UNCHANGED sideVars

\* call_tool_async, yielding its result, and leaving the `with` block
Stream_Call(t) ==
    /\ pc[t] = "stream_call"
    /\ sess' = SessionExit(sess, t)
    /\ \E outcome \in {"success", "error", "raise"} :
         IF outcome = "raise"
         THEN Goto(t, "stream_except", loc[t])
         ELSE Return(t, Result("stream", loc[t].connection_id, outcome, "remote result"))
    /\ UNCHANGED <<_connections, infos, registry, catVars, now, calls, hist>>
    /\ UNCHANGED sideVars

\* (mutation) the except branch leaves the ConnectionInfo alone
StreamOnError_keep(info) == info

\* what the except branch does to the ConnectionInfo the wrapper looked up
StreamOnError(info) == [info EXCEPT !.is_active = FALSE, !.last_error = "error"]

\* the except branch: the locked update, then the error result
Stream_Except(t) ==
    /\ pc[t] = "stream_except"
    /\ infos' = [infos EXCEPT ![loc[t].config] = StreamOnError(@)]
    /\ Return(t, Result("stream", loc[t].connection_id, "error", "Failed to execute tool"))
    /\ UNCHANGED <<_connections, registry, catVars, now, sess, calls, hist>>
    /\ UNCHANGED sideVars

-----------------------------------------------------------------------------
(* Spec: the threads *)

\* what the catalog caller remembers: per name the description of its latest
\* successful registration, whether the catalog was written since its last
\* build_catalog_overview call, and the overview that call returned
NoHist == [last_desc |-> [n \in ToolNames |-> ""],
           wrote |-> FALSE, last_overview |-> <<>>]

Init ==
    /\ _connections = [c \in ConnIds |-> NoInfo]
    /\ infos = <<>>
    /\ registry = [n \in ToolNames |-> "none"]
    /\ catalog = [tools |-> <<>>]
    /\ _overview_cache = <<>>
    /\ _overview_cache_time = <<>>
    /\ now = 0
    /\ pc = [t \in Threads |-> "idle"]
    /\ loc = [t \in Threads |-> IdleLoc]
    /\ sess = [t \in Threads |-> FALSE]
    /\ ret = NoResult
    /\ calls = [t \in Threads |-> 0]
    /\ hist = NoHist
    /\ module_globals = ModuleGlobals(7, Absent, Absent)
    /\ params = IdleParams
    /\ http_params = NoHttpParams
    /\ lock_owner = "none"
    /\ pool = NoPool
    /\ RESEARCH_JOBS = <<>>
    /\ RESEARCH_POLLERS = <<>>
    /\ poll_task = NoTask
    /\ waiters = NoWaiters
    /\ cat_local = IdleLocal

Next ==
    \E t \in Threads :
        \/ Connect_Check(t)
        \/ Connect_Open(t)
        \/ Connect_List(t)
        \/ Connect_Store(t)
        \/ _list_active_connections(t)
        \/ UnknownAction(t)
        \/ Disconnect_Validate(t)
        \/ Disconnect_Remove(t)
        \/ Disconnect_Cleanup(t)
        \/ Remote_Validate(t)
        \/ Remote_Open(t)
        \/ Remote_Call(t)
        \/ LoadTools_Validate(t)
        \/ LoadTools_Open(t)
        \/ LoadTools_List(t)
        \/ LoadTools_Catalog(t)
        \/ LoadTools_Agent(t)
        \/ LoadTools_Update(t)
        \/ Stream_Get(t)
        \/ Stream_Open(t)
        \/ Stream_Call(t)
        \/ Stream_Except(t)

Spec == Init /\ [][Next]_vars

-----------------------------------------------------------------------------
(* SpecLoaded: the threads, started where connect("c1") and                 *)
(* load_tools("c1", agent, load_into_agent_registry=True) have returned     *)

\* the ConnectionInfo of c1 after that load_tools
LoadedInfo == LoadToolsUpdate(ConnectionInfo("c1"), ServerTools("c1"), ServerTools("c1"))

InitLoaded ==
    /\ _connections = [c \in ConnIds |-> IF c = "c1" THEN 1 ELSE NoInfo]
    /\ infos = <<LoadedInfo>>
    /\ registry = RegisterWrappers([n \in ToolNames |-> "none"], "c1", Range(ServerTools("c1")))
    /\ catalog = [tools |-> RegisterMcpEntries(<<>>, "c1", ServerTools("c1"))]
    /\ _overview_cache = <<>>
    /\ _overview_cache_time = <<>>
    /\ now = 0
    /\ pc = [t \in Threads |-> "idle"]
    /\ loc = [t \in Threads |-> IdleLoc]
    /\ sess = [t \in Threads |-> FALSE]
    /\ ret = NoResult
    /\ calls = [t \in Threads |-> 0]
    /\ hist = NoHist
    /\ module_globals = ModuleGlobals(7, Absent, Absent)
    /\ params = IdleParams
    /\ http_params = NoHttpParams
    /\ lock_owner = "none"
    /\ pool = NoPool
    /\ RESEARCH_JOBS = <<>>
    /\ RESEARCH_POLLERS = <<>>
    /\ poll_task = NoTask
    /\ waiters = NoWaiters
    /\ cat_local = IdleLocal

SpecLoaded == InitLoaded /\ [][Next]_vars

-----------------------------------------------------------------------------
(* SpecCat: one caller of the ToolCatalogManager *)

mcpVars == <<_connections, infos, registry, pc, loc, sess, calls>>

CatResult(action, status, value) ==
    [Result(action, NoId, status, "") EXCEPT !.thread = "T1", !.value = value]

\* hist after the entries were registered, in order
RECURSIVE Remember(_, _)
Remember(h, entries) ==
    IF entries = <<>> THEN [h EXCEPT !.wrote = TRUE]
    ELSE LET e == Head(entries) IN
         Remember([h EXCEPT !.last_desc[e.name] = e.description],
                  Tail(entries))

Forget(h, names) ==
    [h EXCEPT !.last_desc = [n \in ToolNames |-> IF n \in names THEN "" ELSE @[n]],
              !.wrote = TRUE]

\* a register_* call whose entry is upserted; the write may raise before the file is opened.
\* (The call returns None; value records the entry the name had before the call.)
UpsertCall(action, entry) ==
    \E written \in BOOLEAN :
        IF written
        THEN /\ _write_catalog(_upsert_entry(catalog.tools, entry))
             /\ hist' = Remember(hist, <<entry>>)
             /\ ret' = CatResult(action, "success", get_tool_details(catalog.tools, entry.name))
        ELSE /\ UNCHANGED <<catVars, hist>>
             /\ ret' = CatResult(action, "raised", <<>>)

register_entry ==
    /\ \E name \in ToolNames \cup {""}, description \in Descriptions :
         IF name = ""
         THEN /\ UNCHANGED <<catVars, hist>>          \* _upsert_entry returns before writing
              /\ ret' = CatResult("register_entry", "success", <<>>)
         ELSE UpsertCall("register_entry", RegisterEntryDict(name, description, "custom", ""))
    /\ UNCHANGED <<mcpVars, now>>
    /\ UNCHANGED sideVars

ToolObjects == [name : ToolNames, description : Descriptions]

register_tool ==
    /\ \E tool_obj \in ToolObjects :
         UpsertCall("register_tool", _build_entry(tool_obj, "custom", ""))
    /\ UNCHANGED <<mcpVars, now>>
    /\ UNCHANGED sideVars

ToolLists == UNION {[1..k -> ToolObjects] : k \in 0..MaxBatch}

register_tools ==
    /\ \E tools \in ToolLists, written \in BOOLEAN :
         LET entries == [i \in 1..Len(tools) |-> _build_entry(tools[i], "custom", "")] IN
         IF written
         THEN /\ _write_catalog(register_tools_index(catalog.tools, entries))
              /\ hist' = Remember(hist, entries)
              /\ ret' = CatResult("register_tools", "success", <<>>)
         ELSE /\ UNCHANGED <<catVars, hist>>
              /\ ret' = CatResult("register_tools", "raised", <<>>)
    /\ UNCHANGED <<mcpVars, now>>
    /\ UNCHANGED sideVars

\* remove_tools: _remove_entries, any exception swallowed
remove_tools ==
    /\ \E names \in SUBSET ToolNames, written \in BOOLEAN :
         IF names # {} /\ written
         THEN /\ _write_catalog(_remove_entries(catalog.tools, names))
              /\ hist' = Forget(hist, names)
         ELSE UNCHANGED <<catVars, hist>>
    /\ ret' = CatResult("remove_tools", "success", <<>>)
    /\ UNCHANGED <<mcpVars, now>>
    /\ UNCHANGED sideVars

build_catalog_overview ==
    /\ IF CacheFresh(_overview_cache, _overview_cache_time, now, DEFAULT_OVERVIEW_CACHE_TTL_SECONDS)
       THEN /\ ret' = CatResult("build_catalog_overview", "success", _overview_cache)
            /\ hist' = [hist EXCEPT !.wrote = FALSE, !.last_overview = _overview_cache]
            /\ UNCHANGED catVars
       ELSE IF OverviewRaises(catalog.tools)
       THEN /\ ret' = CatResult("build_catalog_overview", "raised", <<>>)   \* TypeError
            /\ hist' = [hist EXCEPT !.wrote = FALSE]
            /\ UNCHANGED catVars
       ELSE LET result == ComputeOverview(catalog.tools, now) IN
            /\ _overview_cache' = <<result>>
            /\ _overview_cache_time' = <<now>>
            /\ ret' = CatResult("build_catalog_overview", "success", <<result>>)
            /\ hist' = [hist EXCEPT !.wrote = FALSE, !.last_overview = <<result>>]
            /\ UNCHANGED catalog
    /\ UNCHANGED <<mcpVars, now>>
    /\ UNCHANGED sideVars

GetToolDetails ==
    /\ \E name \in ToolNames \cup {"", "srv1"} :
         ret' = CatResult("get_tool_details", "success", get_tool_details(catalog.tools, name))
    /\ UNCHANGED <<mcpVars, catVars, now, hist>>
    /\ UNCHANGED sideVars

Tick ==
    /\ now + TickSeconds <= MaxTime
    /\ now' = now + TickSeconds
    /\ ret' = NoResult
    /\ UNCHANGED <<mcpVars, catVars, hist>>
    /\ UNCHANGED sideVars

NextCat ==
    \/ register_entry
    \/ register_tool
    \/ register_tools
    \/ remove_tools
    \/ build_catalog_overview
    \/ GetToolDetails
    \/ Tick

SpecCat == Init /\ [][NextCat]_vars

TypeOK ==
    /\ \A c \in ConnIds : _connections[c] \in 0..Len(infos)
    /\ Len(infos) <= MaxInfos
    /\ ret.status \in {"none", "success", "error", "raised"}
    /\ \A i \in DOMAIN catalog.tools : catalog.tools[i].name \in ToolNames

-----------------------------------------------------------------------------
(* SpecTools: the tool functions the agent framework calls, one caller *)

MaxInvocations == 2      \* invocations passed to one batch call

\* what a tool function hands back: the top-level keys of the dict it returns
\* (status "raised", no keys: an exception left the function), and the call's arguments
Envelope(tool, args, keys, status, value) ==
    [thread |-> "T1", action |-> tool, args |-> args, keys |-> keys, status |-> status, value |-> value]

StatusContent == {"status", "content"}

ToolFunctions == {"batch", "tool_catalog", "tool_execute", "unload_tool", "perplexity_deep_research"}

\* one invocation of a batch: the name it gives ("nope": no such tool, "None": no name key)
\* and whether the tool raises when called
Invocations ==
    {[name |-> n, raises |-> r] : n \in ToolNames, r \in BOOLEAN}
    \cup {[name |-> "nope", raises |-> FALSE], [name |-> "None", raises |-> FALSE]}

InvocationLists == UNION {[1..k -> Invocations] : k \in 0..MaxInvocations}

\* the body of batch's for loop: the result appended for one invocation
batch_result(inv) ==
    IF inv.name \in ToolNames
    THEN IF inv.raises
         THEN [name |-> inv.name, status |-> "error", error |-> "raised"]
         ELSE [name |-> inv.name, status |-> "success", error |-> ""]
    ELSE [name |-> inv.name, status |-> "error", error |-> "not found in agent"]

\* batch's for loop; getattr(agent.tool, None) raises TypeError outside the inner try
RECURSIVE batch_loop(_, _)
batch_loop(invocations, results) ==
    IF invocations = <<>> THEN [raised |-> FALSE, results |-> results]
    ELSE IF Head(invocations).name = "None" THEN [raised |-> TRUE, results |-> results]
    ELSE batch_loop(Tail(invocations), Append(results, batch_result(Head(invocations))))

\* (mutation) any failure makes the batch failed
batch_status_anyfail(results) ==
    IF \A i \in DOMAIN results : results[i].status = "success" THEN "success" ELSE "failed"

\* the overall status batch computes from its results
batch_status(results) ==
    LET successful_results == SelectSeq(results, LAMBDA r : r.status = "success")
        failed_results == SelectSeq(results, LAMBDA r : r.status = "error") IN
    IF Len(failed_results) = 0 THEN "success"
    ELSE IF Len(successful_results) > 0 THEN "partial_success"
    ELSE "failed"

toolVars == <<_connections, infos, pc, loc, sess, calls, now, hist>>

batch ==
    /\ \E invocations \in InvocationLists, has_tool \in BOOLEAN :
         LET args == [invocations |-> invocations, has_tool |-> has_tool]
             run == batch_loop(invocations, <<>>) IN
         /\ ~has_tool => invocations = <<>>     \* the loop is not entered then
         /\ IF ~has_tool \/ run.raised        \* the outer except of batch
            THEN ret' = Envelope("batch", args, StatusContent, "error", <<>>)
            ELSE ret' = Envelope("batch", args, StatusContent, batch_status(run.results),
                          [all_results |-> run.results,
                           successful_results |-> SelectSeq(run.results, LAMBDA r : r.status = "success"),
                           failed_results |-> SelectSeq(run.results, LAMBDA r : r.status = "error")])
    /\ UNCHANGED <<toolVars, registry, catVars>>
    /\ UNCHANGED sideVars

\* the catalog entry's path, "None" when the entry or the path is missing
DetailsPath(tools, name) ==
    LET details == get_tool_details(tools, name) IN
    IF details = <<>> THEN "None" ELSE details[1].path

\* tool_catalog(action=...): list_categories, get_tool, execute of one tool, load, unload
tool_catalog ==
    \E action \in {"list_categories", "get_tool", "execute", "load", "unload", "other"},
       name \in ToolNames \cup {""}, ok \in BOOLEAN :
        LET args == [action |-> action, name |-> name]
            path == DetailsPath(catalog.tools, name) IN
        /\ action \in {"list_categories", "get_tool", "other"} => ok
        /\ IF action = "list_categories"
           THEN /\ name = ""
                /\ IF CacheFresh(_overview_cache, _overview_cache_time, now,
                                 DEFAULT_OVERVIEW_CACHE_TTL_SECONDS)
                   THEN /\ ret' = Envelope("tool_catalog", args, StatusContent, "success", _overview_cache)
                        /\ UNCHANGED catVars
                   ELSE IF OverviewRaises(catalog.tools)      \* no try around the call
                   THEN /\ ret' = Envelope("tool_catalog", args, {}, "raised", <<>>)
                        /\ UNCHANGED catVars
                   ELSE /\ _overview_cache' = <<ComputeOverview(catalog.tools, now)>>
                        /\ _overview_cache_time' = <<now>>
                        /\ ret' = Envelope("tool_catalog", args, StatusContent, "success",
                                           <<ComputeOverview(catalog.tools, now)>>)
                        /\ UNCHANGED catalog
                /\ UNCHANGED registry
           ELSE IF action = "other"
           THEN /\ ret' = Envelope("tool_catalog", args, StatusContent, "error", <<>>)
                /\ UNCHANGED <<catVars, registry>>
           ELSE IF name = ""
           THEN /\ ok
                /\ ret' = Envelope("tool_catalog", args, StatusContent, "error", <<>>)
                /\ UNCHANGED <<catVars, registry>>
           ELSE IF action = "get_tool"
           THEN /\ ret' = Envelope("tool_catalog", args, StatusContent,
                                   IF get_tool_details(catalog.tools, name) = <<>>
                                   THEN "error" ELSE "success",
                                   get_tool_details(catalog.tools, name))
                /\ UNCHANGED <<catVars, registry>>
           ELSE IF action = "unload"
           THEN /\ ok
                /\ registry' = [registry EXCEPT ![name] = "none"]
                /\ ret' = Envelope("tool_catalog", args, StatusContent, "success", <<>>)
                /\ UNCHANGED catVars
           ELSE IF path = "None"
           THEN /\ ok
                /\ ret' = Envelope("tool_catalog", args, StatusContent, "error", <<>>)
                /\ UNCHANGED <<catVars, registry>>
           ELSE IF action = "load"
           THEN /\ registry' = IF ok THEN [registry EXCEPT ![name] = "local"] ELSE registry
                /\ ret' = Envelope("tool_catalog", args, StatusContent,
                                   IF ok THEN "success" ELSE "error", <<>>)
                /\ UNCHANGED catVars
           ELSE \* execute: _execute_one loads, calls and, in its finally, unloads
                /\ registry' = [registry EXCEPT ![name] = "none"]
                /\ ret' = Envelope("tool_catalog", args, StatusContent,
                                   IF ok THEN "success" ELSE "error", <<>>)
                /\ UNCHANGED catVars
        /\ UNCHANGED toolVars
        /\ UNCHANGED sideVars

\* what the tool called by tool_execute hands back
ToolOutcomes == {"raises", "plain", "success", "error", "partial_success"}

tool_execute ==
    /\ \E name \in ToolNames \cup {"", "tool_execute"}, has_agent \in BOOLEAN,
          args_ok \in BOOLEAN, load_if_missing \in BOOLEAN, load_ok \in BOOLEAN,
          outcome \in ToolOutcomes :
         LET args == [name |-> name, has_agent |-> has_agent, load_if_missing |-> load_if_missing]
             early == name \in {"", "tool_execute"} \/ ~has_agent \/ ~args_ok
             loaded == ~early /\ registry[name] # "none"
             try_load == ~early /\ ~loaded /\ load_if_missing
                           /\ DetailsPath(catalog.tools, name) # "None" IN
         /\ early => (load_ok /\ load_if_missing /\ outcome = "plain")
         /\ (~early /\ ~try_load) => load_ok
         /\ (~loaded /\ ~(try_load /\ load_ok)) => outcome = "plain"
         /\ IF early
            THEN /\ ret' = Envelope("tool_execute", args, StatusContent, "error", <<>>)
                 /\ UNCHANGED registry
            ELSE IF try_load /\ ~load_ok          \* load_tool's own error result is returned
            THEN /\ ret' = Envelope("tool_execute", args, StatusContent, "error", <<>>)
                 /\ UNCHANGED registry
            ELSE IF ~loaded /\ ~try_load
            THEN /\ ret' = Envelope("tool_execute", args, StatusContent, "error", <<>>)
                 /\ UNCHANGED registry
            ELSE /\ registry' = IF loaded THEN registry ELSE [registry EXCEPT ![name] = "local"]
                 /\ ret' = Envelope("tool_execute", args, StatusContent,
                                    CASE outcome = "raises" -> "error"
                                      [] outcome = "plain" -> "success"
                                      [] OTHER -> outcome,      \* the tool's own dict is returned as is
                                    <<>>)
    /\ UNCHANGED <<toolVars, catVars>>
    /\ UNCHANGED sideVars

unload_tool ==
    /\ \E name \in ToolNames \cup {""}, agent \in AgentKinds, ok \in BOOLEAN :
         LET args == [name |-> name, agent |-> agent] IN
         /\ (name = "" \/ agent # "agent") => ok
         /\ IF name = "" \/ agent # "agent" \/ ~ok
            THEN /\ ret' = Envelope("unload_tool", args, StatusContent, "error", <<>>)
                 /\ UNCHANGED registry
            ELSE /\ registry' = [registry EXCEPT ![name] = "none"]
                 /\ ret' = Envelope("unload_tool", args, StatusContent, "success", <<>>)
    /\ UNCHANGED <<toolVars, catVars>>
    /\ UNCHANGED sideVars

\* perplexity_deep_research: what its return statements hand back
perplexity_deep_research ==
    /\ \E has_key \in BOOLEAN, action \in {"start", "list_pending", "status", "cancel"},
          has_request_id \in BOOLEAN :
         LET args == [action |-> action, has_key |-> has_key, has_request_id |-> has_request_id] IN
         /\ ~has_key => (action = "start" /\ has_request_id)
         /\ action \in {"start", "list_pending"} => has_request_id
         /\ ret' = Envelope("perplexity_deep_research", args,
                     IF ~has_key THEN {"success", "error", "topic"}
                     ELSE IF action = "list_pending"
                     THEN {"success", "pending_jobs", "count", "message"}
                     ELSE IF ~has_request_id THEN {"success", "error", "topic"}
                     ELSE {"success", "error", "request_id"},
                     "none", <<>>)
    /\ UNCHANGED <<toolVars, registry, catVars>>
    /\ UNCHANGED sideVars

NextTools ==
    \/ batch
    \/ tool_catalog
    \/ tool_execute
    \/ unload_tool
    \/ perplexity_deep_research
    \/ register_tool

SpecTools == Init /\ [][NextTools]_vars

-----------------------------------------------------------------------------
(* The timeouts of connect: mcp_client merges them, _create_transport_callable passes them on *)

\* what a caller passes as timeout / sse_read_timeout or puts into server_config
SuppliedValues ==
    {Num(0 - 1), Num(0), Num(2), Num(MaxSeconds), Str(MaxSeconds), Junk, List, NaNValue, InfValue}

\* STRANDS_MCP_TIMEOUT and STRANDS_MCP_SSE_READ_TIMEOUT (a text float() rejects ends the import)
EnvValues == {Absent, Str(2), Str(MaxSeconds), NaNValue}

InitTimeout ==
    /\ _connections = [c \in ConnIds |-> NoInfo]
    /\ infos = <<>>
    /\ registry = [n \in ToolNames |-> "none"]
    /\ catalog = [tools |-> <<>>]
    /\ _overview_cache = <<>>
    /\ _overview_cache_time = <<>>
    /\ now = 0
    /\ pc = [t \in Threads |-> "idle"]
    /\ loc = [t \in Threads |-> IdleLoc]
    /\ sess = [t \in Threads |-> FALSE]
    /\ ret = NoResult
    /\ calls = [t \in Threads |-> 0]
    /\ hist = NoHist
    /\ module_globals \in {ModuleGlobals(api, e1, e2) :
                             api \in ApiTimeoutValues, e1 \in EnvValues, e2 \in EnvValues}
    /\ params = IdleParams
    /\ http_params = NoHttpParams
    /\ lock_owner = "none"
    /\ pool = NoPool
    /\ RESEARCH_JOBS = <<>>
    /\ RESEARCH_POLLERS = <<>>
    /\ poll_task = NoTask
    /\ waiters = NoWaiters
    /\ cat_local = IdleLocal

\* params["timeout"]
Connect_Timeout ==
    /\ params.stage \in {"idle", "done"}
    /\ \E direct \in SuppliedValues \cup {None}, configured \in SuppliedValues \cup {None, Absent} :
         params' = [stage |-> "timeout", direct |-> direct, configured |-> configured,
                    timeout |-> MergeTimeout(direct, configured, module_globals.DEFAULT_MCP_TIMEOUT),
                    sse_read_timeout |-> None]
    /\ ret' = NoResult
    /\ UNCHANGED <<mcpVars, catVars, now, hist, module_globals, http_params, timeoutOthers>>

\* params["sse_read_timeout"]
Connect_SseReadTimeout ==
    /\ params.stage = "timeout"
    /\ \E direct \in SuppliedValues \cup {None}, configured \in SuppliedValues \cup {None, Absent} :
         params' = [params EXCEPT
                      !.stage = "sse_read_timeout", !.direct = direct, !.configured = configured,
                      !.sse_read_timeout =
                          MergeTimeout(direct, configured, module_globals.DEFAULT_MCP_SSE_READ_TIMEOUT)]
    /\ ret' = NoResult
    /\ UNCHANGED <<mcpVars, catVars, now, hist, module_globals, http_params, timeoutOthers>>

\* _create_transport_callable, called by _connect_to_server inside its try
Connect_Transport ==
    /\ params.stage = "sse_read_timeout"
    /\ \E transport \in {"sse", "streamable_http"} :
         LET timeout == HttpParam(params.timeout)
             sse_read_timeout == HttpParam(params.sse_read_timeout) IN
         IF transport = "sse"
         THEN /\ http_params' = [transport |-> transport, timeout |-> Absent,
                                 sse_read_timeout |-> Absent]
              /\ ret' = NoResult
         ELSE IF FloatRaised \in {timeout, sse_read_timeout}
         THEN /\ http_params' = [transport |-> "raised", timeout |-> Absent,
                                 sse_read_timeout |-> Absent]
              /\ ret' = Result("connect", NoId, "error", "Connection failed")
         ELSE /\ http_params' = [transport |-> transport, timeout |-> timeout,
                                 sse_read_timeout |-> sse_read_timeout]
              /\ ret' = NoResult
    /\ params' = [params EXCEPT !.stage = "done"]
    /\ UNCHANGED <<mcpVars, catVars, now, hist, module_globals, timeoutOthers>>

NextTimeout ==
    \/ Connect_Timeout
    \/ Connect_SseReadTimeout
    \/ Connect_Transport

SpecTimeout == InitTimeout /\ [][NextTimeout]_vars

-----------------------------------------------------------------------------
(* _CONNECTION_LOCK: call_tool, connect, disconnect and MCPTool.stream with every
   `with _CONNECTION_LOCK:` section entered and left in steps of its own *)

\* the positions in front of a `with _CONNECTION_LOCK:` section
LockAcquireLabels == {"lk_validate", "lk_get", "lk_check", "lk_store", "lk_pop", "lk_mark"}

\* the position inside the section entered from label
LockedLabel(label) ==
    CASE label = "lk_validate" -> "lk_validate_in"
      [] label = "lk_get" -> "lk_get_in"
      [] label = "lk_check" -> "lk_check_in"
      [] label = "lk_store" -> "lk_store_in"
      [] label = "lk_pop" -> "lk_pop_in"
      [] label = "lk_mark" -> "lk_mark_in"

LockedLabels == {LockedLabel(l) : l \in LockAcquireLabels}

\* (mutation) the section is left without releasing
LockExit_held(owner) == owner

\* leaving a `with _CONNECTION_LOCK:` section
LockExit(owner) == "none"

\* mcp_client(action=...) is called: connect goes to its existence check, call_tool and
\* disconnect to _validate_connection
Lock_Start(t) ==
    /\ pc[t] = "idle"
    /\ CanCall(t)
    /\ calls' = [calls EXCEPT ![t] = @ + 1]
    /\ \E action \in {"call_tool", "connect", "disconnect"}, cid \in ConnIds :
         /\ action = "connect" =>
               Len(infos) + Cardinality({u \in Threads : loc[u].action = "connect"}) < MaxInfos
         /\ Goto(t, IF action = "connect" THEN "lk_check" ELSE "lk_validate",
                 [IdleLoc EXCEPT !.action = action, !.connection_id = cid])
    /\ UNCHANGED <<_connections, infos, registry, catVars, now, sess, hist, lockOthers, lockVars>>

\* the agent runs a wrapped tool: MCPTool.stream goes to _get_connection
Lock_StreamStart(t) ==
    /\ pc[t] = "idle"
    /\ CanCall(t)
    /\ calls' = [calls EXCEPT ![t] = @ + 1]
    /\ \E n \in ToolNames :
         /\ registry[n] # "none"
         /\ Goto(t, "lk_get", [IdleLoc EXCEPT !.action = "stream", !.connection_id = registry[n],
                                              !.tool_name = n])
    /\ UNCHANGED <<_connections, infos, registry, catVars, now, sess, hist, lockOthers, lockVars>>

\* Lock.acquire: blocks while another thread is inside a section
Lock_Acquire(t) ==
    /\ pc[t] \in LockAcquireLabels
    /\ lock_owner = "none"
    /\ lock_owner' = t
    /\ Goto(t, LockedLabel(pc[t]), loc[t])
    /\ UNCHANGED <<_connections, infos, registry, catVars, now, sess, calls, hist, lockOthers>>

\* _get_connection: `return _connections.get(connection_id)` under the lock; called by
\* _validate_connection, by _call_server_tool and by MCPTool.stream
Lock_Get(t) ==
    /\ pc[t] \in {"lk_validate_in", "lk_get_in"}
    /\ lock_owner' = LockExit(lock_owner)
    /\ Goto(t, IF pc[t] = "lk_validate_in" \/ loc[t].action = "stream"
               THEN "lk_checks" ELSE "lk_open",
            [loc[t] EXCEPT !.config = _connections[loc[t].connection_id]])
    /\ UNCHANGED <<_connections, infos, registry, catVars, now, sess, calls, hist, lockOthers>>

\* `if not config` and `if not config.is_active`, of _validate_connection and of stream
Lock_Checks(t) ==
    /\ pc[t] = "lk_checks"
    /\ LET config == loc[t].config
           cid == loc[t].connection_id IN
       IF config = NoInfo
       THEN Return(t, Result(loc[t].action, cid, "error", "not found"))
       ELSE IF loc[t].action # "disconnect" /\ ~infos[config].is_active
       THEN Return(t, Result(loc[t].action, cid, "error", "is not active"))
       ELSE Goto(t, IF loc[t].action = "call_tool" THEN "lk_get"
                    ELSE IF loc[t].action = "disconnect" THEN "lk_pop"
                    ELSE "lk_open", loc[t])
    /\ UNCHANGED <<_connections, infos, registry, catVars, now, sess, calls, hist, lockOthers, lockVars>>

\* the existence check of _connect_to_server
Lock_Check(t) ==
    /\ pc[t] = "lk_check_in"
    /\ lock_owner' = LockExit(lock_owner)
    /\ IF ConnectionExists(_connections, infos, loc[t].connection_id)
       THEN Return(t, Result("connect", loc[t].connection_id, "error", "already exists and is active"))
       ELSE Goto(t, "lk_open", loc[t])
    /\ UNCHANGED <<_connections, infos, registry, catVars, now, sess, calls, hist, lockOthers>>

\* entering `with mcp_client:` / `with config.mcp_client:`
Lock_Open(t) ==
    /\ pc[t] = "lk_open"
    /\ IF loc[t].action = "call_tool" /\ loc[t].config = NoInfo
       THEN /\ Return(t, Result("call_tool", loc[t].connection_id, "error",
                                "Failed: NoneType has no mcp_client"))
            /\ UNCHANGED sess
       ELSE /\ sess' = [sess EXCEPT ![t] = TRUE]
            /\ Goto(t, "lk_call", loc[t])
    /\ UNCHANGED <<_connections, infos, registry, catVars, now, calls, hist, lockOthers, lockVars>>

\* the remote call (list_tools_sync, call_tool_sync, call_tool_async) and leaving the block
Lock_Call(t) ==
    /\ pc[t] = "lk_call"
    /\ sess' = SessionExit(sess, t)
    /\ \E outcome \in {"success", "raise"} :
         IF outcome = "success"
         THEN IF loc[t].action = "connect"
              THEN Goto(t, "lk_store", loc[t])
              ELSE Return(t, Result(loc[t].action, loc[t].connection_id, "success", "remote result"))
         ELSE IF loc[t].action = "stream"
              THEN Goto(t, "lk_mark", loc[t])
              ELSE Return(t, Result(loc[t].action, loc[t].connection_id, "error",
                                    IF loc[t].action = "connect" THEN "Connection failed"
                                    ELSE "Failed: remote call raised"))
    /\ UNCHANGED <<_connections, infos, registry, catVars, now, calls, hist, lockOthers, lockVars>>

\* `_connections[connection_id] = connection_info` under the lock
Lock_Store(t) ==
    /\ pc[t] = "lk_store_in"
    /\ lock_owner' = LockExit(lock_owner)
    /\ infos' = Append(infos, ConnectStoreInfo(loc[t].connection_id))
    /\ _connections' = [_connections EXCEPT ![loc[t].connection_id] = Len(infos) + 1]
    /\ Return(t, Result("connect", loc[t].connection_id, "success", "Connected"))
    /\ UNCHANGED <<registry, catVars, now, sess, calls, hist, lockOthers>>

\* the locked section of _disconnect_from_server (no agent is passed)
Lock_Pop(t) ==
    /\ pc[t] = "lk_pop_in"
    /\ lock_owner' = LockExit(lock_owner)
    /\ IF _connections[loc[t].connection_id] = NoInfo
       THEN /\ Return(t, Result("disconnect", loc[t].connection_id, "error", "Disconnect failed"))
            /\ UNCHANGED _connections
       ELSE /\ _connections' = DisconnectTable(_connections, loc[t].connection_id)
            /\ Return(t, Result("disconnect", loc[t].connection_id, "success", "Disconnected"))
    /\ UNCHANGED <<infos, registry, catVars, now, sess, calls, hist, lockOthers>>

\* the except branch of MCPTool.stream: is_active and last_error are written under the lock
Lock_Mark(t) ==
    /\ pc[t] = "lk_mark_in"
    /\ lock_owner' = LockExit(lock_owner)
    /\ infos' = [infos EXCEPT ![loc[t].config] = StreamOnError(@)]
    /\ Return(t, Result("stream", loc[t].connection_id, "error", "Failed to execute tool"))
    /\ UNCHANGED <<_connections, registry, catVars, now, sess, calls, hist, lockOthers>>

NextLock ==
    \E t \in Threads :
        \/ Lock_Start(t)
        \/ Lock_StreamStart(t)
        \/ Lock_Acquire(t)
        \/ Lock_Get(t)
        \/ Lock_Checks(t)
        \/ Lock_Check(t)
        \/ Lock_Open(t)
        \/ Lock_Call(t)
        \/ Lock_Store(t)
        \/ Lock_Pop(t)
        \/ Lock_Mark(t)

SpecLock == InitLoaded /\ [][NextLock]_vars

-----------------------------------------------------------------------------
(* How tool_catalog(action="execute", tools=[...]) and batch run their invocations;
   an invocation is its index in the list *)

\* ThreadPoolExecutor(max_workers=min(len(resolved), 4))
PoolWorkers(n) == IF n < 4 THEN n ELSE 4

\* the first k members of a sequence, all of them when it is shorter
Take(s, k) == SubSeq(s, 1, IF k < Len(s) THEN k ELSE Len(s))
Drop(s, k) == SubSeq(s, (IF k < Len(s) THEN k ELSE Len(s)) + 1, Len(s))

\* tool_catalog execute with more than one tool: every invocation is submitted, the
\* workers take the first ones
tool_catalog_submit ==
    /\ pool = NoPool
    /\ \E n \in 2..MaxPoolInvocations :
         LET all == [i \in 1..n |-> i] IN
         pool' = [tool |-> "tool_catalog", n |-> n,
                  pending |-> Drop(all, PoolWorkers(n)),
                  running |-> Range(Take(all, PoolWorkers(n))),
                  results |-> <<>>]
    /\ ret' = NoResult
    /\ UNCHANGED <<mcpVars, catVars, now, hist, poolOthers>>

\* a worker's _execute_one returns: as_completed hands the future to the loop, which
\* appends its result, and the worker takes the next submitted invocation
tool_catalog_complete ==
    /\ pool.tool = "tool_catalog"
    /\ \E i \in pool.running :
         pool' = [pool EXCEPT !.results = Append(@, i),
                              !.running = (@ \ {i}) \cup Range(Take(pool.pending, 1)),
                              !.pending = Drop(@, 1)]
    /\ ret' = NoResult
    /\ UNCHANGED <<mcpVars, catVars, now, hist, poolOthers>>

\* batch enters its for loop and calls the first tool function
batch_call ==
    /\ pool = NoPool
    /\ \E n \in 1..MaxPoolInvocations :
         pool' = [tool |-> "batch", n |-> n,
                  pending |-> [i \in 1..(n - 1) |-> i + 1],
                  running |-> {1},
                  results |-> <<>>]
    /\ ret' = NoResult
    /\ UNCHANGED <<mcpVars, catVars, now, hist, poolOthers>>

\* the tool function returns or raises: its result is appended and the loop calls the next one
batch_next ==
    /\ pool.tool = "batch"
    /\ \E i \in pool.running :
         pool' = [pool EXCEPT !.results = Append(@, i),
                              !.running = Range(Take(pool.pending, 1)),
                              !.pending = Drop(@, 1)]
    /\ ret' = NoResult
    /\ UNCHANGED <<mcpVars, catVars, now, hist, poolOthers>>

\* the results are returned
pool_return ==
    /\ pool.tool # "none"
    /\ pool.running = {} /\ pool.pending = <<>>
    /\ ret' = Envelope(pool.tool, <<>>, StatusContent, "success", pool.results)
    /\ pool' = NoPool
    /\ UNCHANGED <<mcpVars, catVars, now, hist, poolOthers>>

NextPool ==
    \/ tool_catalog_submit
    \/ tool_catalog_complete
    \/ batch_call
    \/ batch_next
    \/ pool_return

SpecPool == Init /\ [][NextPool]_vars

-----------------------------------------------------------------------------
(* perplexity_deep_research: one job, its polling task, and the tool calls around it *)

\* _safe_float(value, default)
_safe_float(value, default) ==
    IF value = None THEN default
    ELSE IF PyFloat(value) = FloatRaised THEN default
    ELSE PyFloat(value)

\* _safe_int(value, default), for ints and what int() rejects
_safe_int(value, default) ==
    IF value = None THEN default
    ELSE IF value.k \in {"num", "str"} THEN value.n
    ELSE default

\* a * 2 on floats
PyDouble(a) == IF a.k = "fin" THEN Fin(2 * a.n) ELSE a

\* _compute_delays, with the four environment variables unset
_compute_delays(initial_delay_seconds, base_backoff_seconds, max_backoff_seconds, max_attempts) ==
    LET resolved_initial == _safe_float(initial_delay_seconds, Fin(180))
        resolved_base == _safe_float(base_backoff_seconds, Fin(60))
        resolved_max == _safe_float(max_backoff_seconds, Fin(600))
        resolved_attempts == _safe_int(max_attempts, 30)
        initial == IF PyLess(resolved_initial, Fin(0)) THEN Fin(0) ELSE resolved_initial
        base == IF PyLess(resolved_base, Fin(0)) \/ resolved_base = Fin(0)
                THEN Fin(30) ELSE resolved_base
        max == IF PyLess(resolved_max, base) THEN base ELSE resolved_max
        attempts == IF resolved_attempts < 1 THEN 1 ELSE resolved_attempts IN
    [initial_delay_seconds |-> initial, base_backoff_seconds |-> base,
     max_backoff_seconds |-> max, max_attempts |-> attempts]

\* ResearchJobState(...) as the start flow constructs it
ResearchJobState(config) ==
    [status |-> "CREATED", attempts |-> 0, next_poll_in |-> None, report |-> FALSE,
     completion_event |-> FALSE,
     initial_delay_seconds |-> config.initial_delay_seconds,
     base_backoff_seconds |-> config.base_backoff_seconds,
     max_backoff_seconds |-> config.max_backoff_seconds,
     max_attempts |-> config.max_attempts]

TerminalStatuses == {"COMPLETED", "FAILED", "TIMED_OUT", "CANCELLED"}

\* what a tool call of perplexity_deep_research returns: job.to_dict(), or an error dict
JobResult(action, job, include_report) ==
    [Envelope("perplexity_deep_research", [action |-> action], {"success", "status"},
              job.status, <<>>)
       EXCEPT !.value = <<[report |-> include_report /\ job.report]>>]

\* the `finally` of _poll_research_job
PollFinally(job) == [job EXCEPT !.completion_event = TRUE]

\* action="start": the job is created remotely, registered, and the polling task created
research_start ==
    /\ RESEARCH_JOBS = <<>>
    /\ \E initial \in {None, Num(0 - 1), Num(1)},
          base \in {None, Num(0), Num(1), NaNValue},
          max \in {None, Num(0), Num(MaxBackoff)},
          attempts \in {None, Num(0), Num(MaxAttempts)},
          wait \in BOOLEAN :
         /\ RESEARCH_JOBS' = <<ResearchJobState(_compute_delays(initial, base, max, attempts))>>
         /\ waiters' = [waiters EXCEPT !.wait_for_completion = wait]
    /\ RESEARCH_POLLERS' = <<"task">>
    /\ poll_task' = [NoTask EXCEPT !.at = "created"]
    /\ ret' = NoResult
    /\ UNCHANGED <<mcpVars, catVars, now, hist, researchOthers>>

\* _poll_research_job up to `await asyncio.sleep(job.initial_delay_seconds)`
poll_begin ==
    /\ poll_task.at = "created" /\ ~poll_task.must_cancel
    /\ LET job == RESEARCH_JOBS[1] IN
       /\ RESEARCH_JOBS' = <<[job EXCEPT !.status = "POLLING",
                                          !.next_poll_in = job.initial_delay_seconds]>>
       /\ poll_task' = [poll_task EXCEPT !.at = "sleep", !.delay = job.base_backoff_seconds]
    /\ ret' = NoResult
    /\ UNCHANGED <<mcpVars, catVars, now, hist, RESEARCH_POLLERS, waiters, researchOthers>>

\* a sleep ends: after a backoff sleep the delay doubles; then the while test, and either
\* the next attempt's GET is sent or the job times out
poll_wake ==
    /\ poll_task.at = "sleep" /\ ~poll_task.must_cancel
    /\ LET job == RESEARCH_JOBS[1]
           delay == IF poll_task.attempt = 0 THEN poll_task.delay
                    ELSE PyMin(PyDouble(poll_task.delay), job.max_backoff_seconds) IN
       IF poll_task.attempt < job.max_attempts
       THEN /\ RESEARCH_JOBS' = <<[job EXCEPT !.attempts = poll_task.attempt + 1]>>
            /\ poll_task' = [poll_task EXCEPT !.at = "get", !.attempt = @ + 1, !.delay = delay]
            /\ UNCHANGED RESEARCH_POLLERS
       ELSE /\ RESEARCH_JOBS' = <<PollFinally([job EXCEPT !.status = "TIMED_OUT",
                                                          !.next_poll_in = None])>>
            /\ poll_task' = [poll_task EXCEPT !.at = "done", !.delay = delay]
            /\ RESEARCH_POLLERS' = <<>>
    /\ ret' = NoResult
    /\ UNCHANGED <<mcpVars, catVars, now, hist, waiters, researchOthers>>

\* the GET answers (or fails): COMPLETED and FAILED end the task, anything else leads
\* to the next backoff sleep
poll_answer ==
    /\ poll_task.at = "get" /\ ~poll_task.must_cancel
    /\ LET job == RESEARCH_JOBS[1] IN
       \E answer \in {"COMPLETED", "FAILED", "PROCESSING", "http error"} :
         IF answer = "COMPLETED"
         THEN /\ RESEARCH_JOBS' = <<PollFinally([job EXCEPT !.status = "COMPLETED", !.report = TRUE,
                                                            !.next_poll_in = None])>>
              /\ poll_task' = [poll_task EXCEPT !.at = "done"]
              /\ RESEARCH_POLLERS' = <<>>
         ELSE IF answer = "FAILED"
         THEN /\ RESEARCH_JOBS' = <<PollFinally([job EXCEPT !.status = "FAILED",
                                                            !.next_poll_in = None])>>
              /\ poll_task' = [poll_task EXCEPT !.at = "done"]
              /\ RESEARCH_POLLERS' = <<>>
         ELSE /\ RESEARCH_JOBS' =
                   <<[job EXCEPT !.status = IF answer = "PROCESSING" THEN "PROCESSING" ELSE @,
                                 !.next_poll_in = PyMin(poll_task.delay, job.max_backoff_seconds)]>>
              /\ poll_task' = [poll_task EXCEPT !.at = "sleep"]
              /\ UNCHANGED RESEARCH_POLLERS
    /\ ret' = NoResult
    /\ UNCHANGED <<mcpVars, catVars, now, hist, waiters, researchOthers>>

\* CancelledError is thrown into the task: the except around the GET sets CANCELLED,
\* a sleep has no such except; the finally runs in both cases
poll_cancelled ==
    /\ poll_task.must_cancel /\ poll_task.at \in {"sleep", "get"}
    /\ LET job == RESEARCH_JOBS[1] IN
       RESEARCH_JOBS' = <<PollFinally(IF poll_task.at = "get"
                                      THEN [job EXCEPT !.status = "CANCELLED"] ELSE job)>>
    /\ poll_task' = [poll_task EXCEPT !.at = "done"]
    /\ RESEARCH_POLLERS' = <<>>
    /\ ret' = NoResult
    /\ UNCHANGED <<mcpVars, catVars, now, hist, waiters, researchOthers>>

\* what _cancel_job does to the job after the task is out of the way
CancelJob(job) == [job EXCEPT !.status = "CANCELLED", !.next_poll_in = None,
                              !.completion_event = TRUE]

\* action="cancel": _cancel_job up to `await task`, or to its end when no task is registered
research_cancel ==
    /\ RESEARCH_JOBS # <<>>
    /\ ~waiters.cancel
    /\ IF RESEARCH_POLLERS # <<>> /\ poll_task.at \in {"sleep", "get"}
       THEN /\ poll_task' = [poll_task EXCEPT !.must_cancel = TRUE]
            /\ waiters' = [waiters EXCEPT !.cancel = TRUE]
            /\ ret' = NoResult
            /\ UNCHANGED <<RESEARCH_JOBS, RESEARCH_POLLERS>>
       ELSE /\ RESEARCH_POLLERS = <<>>
            /\ RESEARCH_JOBS' = <<CancelJob(RESEARCH_JOBS[1])>>
            /\ ret' = JobResult("cancel", CancelJob(RESEARCH_JOBS[1]), FALSE)
            /\ UNCHANGED <<RESEARCH_POLLERS, poll_task, waiters>>
    /\ UNCHANGED <<mcpVars, catVars, now, hist, researchOthers>>

\* `await task` returns in _cancel_job
research_cancel_resume ==
    /\ waiters.cancel /\ poll_task.at = "done"
    /\ RESEARCH_JOBS' = <<CancelJob(RESEARCH_JOBS[1])>>
    /\ RESEARCH_POLLERS' = <<>>
    /\ waiters' = [waiters EXCEPT !.cancel = FALSE]
    /\ ret' = JobResult("cancel", CancelJob(RESEARCH_JOBS[1]), FALSE)
    /\ UNCHANGED <<mcpVars, catVars, now, hist, poll_task, researchOthers>>

\* `await job_state.completion_event.wait()` returns in the start call
research_wait_return ==
    /\ waiters.wait_for_completion
    /\ RESEARCH_JOBS # <<>> /\ RESEARCH_JOBS[1].completion_event
    /\ waiters' = [waiters EXCEPT !.wait_for_completion = FALSE]
    /\ ret' = JobResult("start", RESEARCH_JOBS[1], RESEARCH_JOBS[1].status = "COMPLETED")
    /\ UNCHANGED <<mcpVars, catVars, now, hist, RESEARCH_JOBS, RESEARCH_POLLERS, poll_task,
                   researchOthers>>

\* action="status" / "fetch" of a job known locally
research_fetch ==
    /\ RESEARCH_JOBS # <<>>
    /\ ret' = JobResult("fetch", RESEARCH_JOBS[1],
                      RESEARCH_JOBS[1].status \in {"COMPLETED", "FAILED", "TIMED_OUT"})
    /\ UNCHANGED <<mcpVars, catVars, now, hist, researchVars, researchOthers>>

NextResearch ==
    \/ research_start
    \/ poll_begin
    \/ poll_wake
    \/ poll_answer
    \/ poll_cancelled
    \/ research_cancel
    \/ research_cancel_resume
    \/ research_wait_return
    \/ research_fetch

SpecResearch == Init /\ [][NextResearch]_vars

-----------------------------------------------------------------------------
(* two threads writing the catalog file: _load_catalog and _write_catalog are separate steps *)

\* register_entry(name, ...) on thread t, up to the return of _load_catalog in _upsert_entry
upsert_load(t) ==
    /\ cat_local[t].at = "idle"
    /\ \E name \in ToolNames, description \in Descriptions :
         cat_local' = [cat_local EXCEPT ![t] =
             [at |-> "loaded", op |-> "upsert", names |-> {name},
              entry |-> <<RegisterEntryDict(name, description, "custom", "")>>,
              data |-> catalog.tools]]
    /\ ret' = NoResult
    /\ UNCHANGED <<mcpVars, catVars, now, hist, catRaceOthers>>

\* remove_tools(names) on thread t, up to the return of _load_catalog in _remove_entries
remove_load(t) ==
    /\ cat_local[t].at = "idle"
    /\ \E names \in (SUBSET ToolNames) \ {{}} :
         cat_local' = [cat_local EXCEPT ![t] =
             [at |-> "loaded", op |-> "remove", names |-> names, entry |-> <<>>,
              data |-> catalog.tools]]
    /\ ret' = NoResult
    /\ UNCHANGED <<mcpVars, catVars, now, hist, catRaceOthers>>

\* the rest of _upsert_entry / _remove_entries on thread t: the loaded data is changed
\* and _write_catalog replaces the file with it
local_write(t) ==
    /\ cat_local[t].at = "loaded"
    /\ _write_catalog(IF cat_local[t].op = "upsert"
                      THEN _upsert_entry(cat_local[t].data, cat_local[t].entry[1])
                      ELSE _remove_entries(cat_local[t].data, cat_local[t].names))
    /\ cat_local' = [cat_local EXCEPT ![t].at = "done"]
    /\ ret' = [CatResult(IF cat_local[t].op = "upsert" THEN "register_entry" ELSE "remove_tools",
                         "success", <<>>) EXCEPT !.thread = t]
    /\ UNCHANGED <<mcpVars, now, hist, catRaceOthers>>

\* both calls have returned; the threads go on to their next calls
local_return ==
    /\ \A t \in Threads : cat_local[t].at = "done"
    /\ cat_local' = IdleLocal
    /\ ret' = NoResult
    /\ UNCHANGED <<mcpVars, catVars, now, hist, catRaceOthers>>

NextCatRace ==
    \/ \E t \in Threads : upsert_load(t)
    \/ \E t \in Threads : remove_load(t)
    \/ \E t \in Threads : local_write(t)
    \/ local_return

SpecCatRace == Init /\ [][NextCatRace]_vars

-----------------------------------------------------------------------------
(* Properties *)

\* thread t took the step
StepBy(t) == pc'[t] # pc[t] \/ ret'.thread = t

\* the step is the first one of a connect call of thread t for connection_id c
ConnectCalled(t, c) ==
    /\ pc[t] = "idle"
    /\ \/ ret'.thread = t /\ ret'.action = "connect" /\ ret'.connection_id = c
       \/ pc'[t] = "connect_open" /\ loc'[t].connection_id = c

\* C1: when connect returns success for c, the table maps c to one ConnectionInfo of c,
\* and the list_connections listing of that state has exactly one entry for c, which is active.
C1_ConnectThenListed ==
    (ret.action = "connect" /\ ret.status = "success") =>
        LET c == ret.connection_id
            listed == ListedConnections(_connections, infos) IN
        /\ _connections[c] \in 1..Len(infos)
        /\ infos[_connections[c]].connection_id = c
        /\ Cardinality({e \in listed : e.connection_id = c}) = 1
        /\ \A e \in listed : e.connection_id = c => e.is_active

C1_Witness ==
    /\ ret.action = "connect" /\ ret.status = "success"
    /\ Cardinality(ListedConnections(_connections, infos)) = 2

\* C2: a connect call for a connection_id whose stored ConnectionInfo is active returns an
\* error in its first step, 'already exists and is active' (or, when server_config is not a
\* mapping, the dispatcher's own error), whatever the transport and its parameters, and
\* leaves the table and every ConnectionInfo unchanged.
C2_ActiveIdRejected ==
    [][\A t \in Threads, c \in ConnIds :
        (/\ ConnectCalled(t, c)
         /\ _connections[c] # NoInfo
         /\ infos[_connections[c]].is_active)
        => /\ ret'.thread = t
           /\ ret'.status = "error"
           /\ ret'.text \in {"already exists and is active", "Error in mcp_client"}
           /\ _connections' = _connections
           /\ infos' = infos]_vars

C2_Witness ==
    /\ ret.action = "connect" /\ ret.status = "error"
    /\ ret.text = "already exists and is active"
    /\ infos[_connections[ret.connection_id]].is_active

\* C3: when the transport construction or the list_tools probe of a connect call raises,
\* the call returns status error and the table, every ConnectionInfo and the
\* list_connections listing are what they were.
C3_FailedConnectStoresNothing ==
    [][\A t \in Threads :
        (pc[t] \in {"connect_open", "connect_list"} /\ pc'[t] = "idle")
        => /\ ret'.action = "connect"
           /\ ret'.status = "error"
           /\ _connections' = _connections
           /\ infos' = infos
           /\ ListedConnections(_connections', infos') = ListedConnections(_connections, infos)]_vars

\* a connect failed while the table holds a record for the same id, stored by a
\* connect of the other thread that passed the existence check at the same time
C3_Witness ==
    /\ ret.action = "connect" /\ ret.text = "Connection failed"
    /\ _connections[ret.connection_id] # NoInfo
    /\ infos[_connections[ret.connection_id]].connection_id = ret.connection_id

\* C4: the step of disconnect(c) that removes the connection leaves no entry for c in the
\* list_connections listing, and no step of a disconnect call changes what get_tool_details
\* returns for any tool name: the catalog entries registered under c stay.
C4_DisconnectKeepsCatalog ==
    [][\A t \in Threads :
        (StepBy(t) /\ pc[t] \in {"disconnect_remove", "disconnect_cleanup"})
        => /\ \A n \in ToolNames :
                get_tool_details(catalog'.tools, n) = get_tool_details(catalog.tools, n)
           /\ (pc[t] = "disconnect_remove" /\ _connections[loc[t].connection_id] # NoInfo)
                => \A e \in ListedConnections(_connections', infos') :
                       e.connection_id # loc[t].connection_id]_vars

\* a disconnect returned success and the catalog holds an entry registered under its connection
C4_Witness ==
    /\ ret.action = "disconnect" /\ ret.status = "success"
    /\ _connections[ret.connection_id] = NoInfo
    /\ \E n \in ToolNames :
         /\ get_tool_details(catalog.tools, n) # <<>>
         /\ get_tool_details(catalog.tools, n)[1].origin = McpOrigin(ret.connection_id)

\* C5 (as claimed): no step of a load_tools call with load_into_agent_registry=False changes
\* the agent registry or an agent_loaded_tool_names list, and when the call returns success
\* the catalog holds an entry for every tool the connection listed.
C5_LoadWithoutRegistry ==
    [][\A t \in Threads :
        (StepBy(t) /\ loc[t].action = "load_tools" /\ ~loc[t].flag)
        => /\ registry' = registry
           /\ \A i \in DOMAIN infos :
                infos'[i].agent_loaded_tool_names = infos[i].agent_loaded_tool_names
           /\ (ret'.thread = t /\ ret'.status = "success")
                => \A n \in Range(ret'.catalog_tools) :
                       get_tool_details(catalog'.tools, n) # <<>>]_vars

\* C6: a load_tools call with load_into_agent_registry=True and no agent returns the
\* 'agent instance is required' error in its first step, which changes nothing; no thread
\* is ever past that step of such a call.
C6_AgentRequiredFirst ==
    /\ [](/\ (ret.action = "load_tools" /\ ret.flag /\ ret.agent = "none")
               => (ret.status = "error" /\ ret.text = "agent instance is required")
          /\ \A t \in Threads :
               ~(loc[t].action = "load_tools" /\ loc[t].flag /\ loc[t].agent = "none"))
    /\ [][(ret'.action = "load_tools" /\ ret'.flag /\ ret'.agent = "none")
            => UNCHANGED <<_connections, infos, registry, catVars, sess>>]_vars

\* the call was rejected although its connection is known and active
C6_Witness ==
    /\ ret.action = "load_tools" /\ ret.flag /\ ret.agent = "none" /\ ret.status = "error"
    /\ ret.connection_id \in ConnIds
    /\ _connections[ret.connection_id] # NoInfo
    /\ infos[_connections[ret.connection_id]].is_active

\* C7: for every ConnectionInfo ever constructed, in the table or not,
\* agent_loaded_tool_names is a subset of loaded_tool_names.
C7_AgentLoadedSubset ==
    \A i \in DOMAIN infos :
        Range(infos[i].agent_loaded_tool_names) \subseteq Range(infos[i].loaded_tool_names)

\* a load_tools run in which one of two agent registrations failed
C7_Witness ==
    \E i \in DOMAIN infos :
        /\ Len(infos[i].agent_loaded_tool_names) = 1
        /\ Len(infos[i].loaded_tool_names) = 2

\* C8: the catalog holds exactly one entry for each name whose latest registration was not
\* removed, none for any other name, and the entry's description is the one of the latest
\* registration of the name.
C8_LastWriteWins ==
    \A n \in ToolNames :
        LET idx == {i \in DOMAIN catalog.tools : catalog.tools[i].name = n} IN
        IF hist.last_desc[n] = ""
        THEN idx = {}
        ELSE /\ Cardinality(idx) = 1
             /\ \A i \in idx : catalog.tools[i].description = hist.last_desc[n]

\* a registration replaced the description of an entry that was there
C8_Witness ==
    /\ ret.action \in {"register_entry", "register_tool"} /\ ret.status = "success"
    /\ ret.value # <<>>
    /\ \E i \in DOMAIN catalog.tools :
         /\ catalog.tools[i].name = ret.value[1].name
         /\ catalog.tools[i].description # ret.value[1].description

\* C9 (as claimed): every build_catalog_overview call returns a result; after a catalog
\* write it is recomputed from the catalog, with the time of the call as generated_at;
\* with no write since the previous call, and within the TTL of the overview that call
\* returned, it is that same overview.
C9_OverviewCache ==
    [][(ret'.action = "build_catalog_overview")
        => /\ ret'.status = "success"
           /\ hist.wrote => ret'.value = <<ComputeOverview(catalog.tools, now)>>
           /\ (/\ ~hist.wrote
               /\ hist.last_overview # <<>>
               /\ now - hist.last_overview[1].generated_at < DEFAULT_OVERVIEW_CACHE_TTL_SECONDS)
              => ret'.value = hist.last_overview]_vars

\* C10: no mcp_client call and no wrapped-tool execution ends with an exception: what the
\* caller gets has status success or error.
C10_NoExceptionEscapes ==
    ret.action # "none" => ret.status \in {"success", "error"}

\* a call found its connection removed by another thread between validation and use
C10_Witness ==
    /\ ret.status = "error"
    /\ ret.text = "Failed: NoneType has no mcp_client"


\* C11 (as claimed): whatever batch, tool_catalog, tool_execute, unload_tool and
\* perplexity_deep_research hand back is a dict with exactly the keys status and content,
\* and status is success or error.
C11_EnvelopeShape ==
    ret.action \in ToolFunctions =>
        (ret.keys = StatusContent /\ ret.status \in {"success", "error"})

CallStarted(t, actions, c) ==
    /\ pc[t] = "idle"
    /\ \/ ret'.thread = t /\ ret'.action \in actions /\ ret'.connection_id = c
       \/ pc'[t] # "idle" /\ loc'[t].action \in actions /\ loc'[t].connection_id = c

\* C12: no step turns is_active of a ConnectionInfo from false to true; the table shows an
\* active record for an id whose record was inactive only by the step of a successful
\* connect that stores a new record; and a call_tool, list_tools or load_tools call on an
\* id whose record is inactive returns an error in its first step.
C12_InactiveStays ==
    [][/\ \A i \in DOMAIN infos : ~infos[i].is_active => ~infos'[i].is_active
       /\ \A c \in ConnIds :
            (_connections[c] # NoInfo /\ ~infos[_connections[c]].is_active)
            => /\ (_connections'[c] # NoInfo /\ infos'[_connections'[c]].is_active)
                    => /\ ret'.action = "connect" /\ ret'.status = "success"
                       /\ ret'.connection_id = c
                       /\ _connections'[c] = Len(infos) + 1
               /\ \A t \in Threads :
                    CallStarted(t, {"call_tool", "list_tools", "load_tools"}, c)
                    => /\ ret'.thread = t
                       /\ ret'.status = "error"
                       /\ ret'.text \in {"is not active", "argument is required",
                                         "agent instance is required"}]_vars

\* a connect stored a fresh active record for an id whose old record stays inactive
C12_Witness ==
    /\ ret.action = "connect" /\ ret.status = "success"
    /\ \E i \in DOMAIN infos :
         /\ infos[i].connection_id = ret.connection_id
         /\ ~infos[i].is_active
         /\ _connections[ret.connection_id] # i
    /\ \E e \in ListedConnections(_connections, infos) :
         e.connection_id = ret.connection_id /\ e.is_active

\* C13: the step in which the remote call of call_tool raises returns an error and leaves
\* every ConnectionInfo (is_active, last_error, both name lists) and the table unchanged,
\* so the connection still passes the validation of the next call_tool.
C13_CallToolErrorKeepsActive ==
    [][\A t \in Threads :
        (/\ pc[t] = "remote_call" /\ loc[t].action = "call_tool"
         /\ ret'.thread = t /\ ret'.text = "Failed: remote call raised")
        => /\ ret'.status = "error"
           /\ infos' = infos
           /\ _connections' = _connections
           /\ infos[loc[t].config].is_active => infos'[loc[t].config].is_active]_vars

\* the remote call raised and the connection is still listed as active, without last_error
C13_Witness ==
    /\ ret.action = "call_tool" /\ ret.text = "Failed: remote call raised"
    /\ \E e \in ListedConnections(_connections, infos) :
         /\ e.connection_id = ret.connection_id
         /\ e.is_active
         /\ e.last_error = "None"

\* C14: when entering the session or the remote call of a wrapped tool raises, after the
\* wrapper found its connection present and active, the step of the except branch leaves the
\* ConnectionInfo the wrapper looked up with is_active false and last_error set, and yields
\* an error result.
C14_StreamErrorMarksInactive ==
    [][\A t \in Threads :
        (pc[t] = "stream_except" /\ StepBy(t))
        => /\ ~infos'[loc[t].config].is_active
           /\ infos'[loc[t].config].last_error # "None"
           /\ ret'.thread = t /\ ret'.action = "stream" /\ ret'.status = "error"]_vars

\* the wrapped tool failed and its connection is now listed as inactive with the error
C14_Witness ==
    /\ ret.action = "stream" /\ ret.text = "Failed to execute tool"
    /\ \E e \in ListedConnections(_connections, infos) :
         /\ e.connection_id = ret.connection_id
         /\ ~e.is_active
         /\ e.last_error = "error"

\* C15: when a wrapped tool is executed and its connection_id is not in the table, or the
\* stored record is inactive, the execution ends in its first step with an error result:
\* no session is opened and the table and every ConnectionInfo are unchanged.
C15_StreamRejectedNoEffect ==
    [][\A t \in Threads, c \in ConnIds :
        (/\ CallStarted(t, {"stream"}, c)
         /\ (_connections[c] = NoInfo \/ ~infos[_connections[c]].is_active))
        => /\ ret'.thread = t /\ ret'.status = "error"
           /\ ret'.text = IF _connections[c] = NoInfo THEN "not found" ELSE "is not active"
           /\ pc'[t] = "idle"
           /\ UNCHANGED <<_connections, infos, sess, registry>>]_vars

\* a wrapper still registered with the agent was executed after its connection was removed
C15_Witness ==
    /\ ret.action = "stream" /\ ret.text = "not found"
    /\ _connections[ret.connection_id] = NoInfo
    /\ \E n \in ToolNames : registry[n] = ret.connection_id

\* C16: the locked step of disconnect(c, agent) removes c from the table; the cleanup that
\* follows when an agent is given reports every name of agent_loaded_tool_names(c) in
\* exactly one of cleaned_tools and failed_tools, whichever names fail, unregisters the
\* cleaned ones, and the call returns success.
C16_DisconnectCleansEveryName ==
    [][\A t \in Threads :
        /\ (pc[t] = "disconnect_remove" /\ StepBy(t) /\ _connections[loc[t].connection_id] # NoInfo)
           => /\ _connections'[loc[t].connection_id] = NoInfo
              /\ (pc'[t] = "disconnect_cleanup"
                    <=> (loc[t].agent # "none"
                         /\ infos[_connections[loc[t].connection_id]].agent_loaded_tool_names # <<>>))
              /\ pc'[t] = "disconnect_cleanup"
                    => loc'[t].names = infos[_connections[loc[t].connection_id]].agent_loaded_tool_names
              /\ pc'[t] = "idle" => ret'.status = "success"
        /\ (pc[t] = "disconnect_cleanup" /\ StepBy(t))
           => LET names == Range(loc[t].names)
                  cleaned == Range(ret'.cleaned_tools)
                  failed == {e.name : e \in Range(ret'.failed_tools)} IN
              /\ ret'.thread = t /\ ret'.action = "disconnect" /\ ret'.status = "success"
              /\ cleaned \cup failed = names
              /\ cleaned \cap failed = {}
              /\ Len(ret'.cleaned_tools) + Len(ret'.failed_tools) = Len(loc[t].names)
              /\ \A n \in cleaned : registry'[n] = "none"]_vars

\* the first name failed to unregister and the second one was cleaned
C16_Witness ==
    /\ ret.action = "disconnect" /\ ret.status = "success"
    /\ Len(ret.failed_tools) = 1 /\ ret.failed_tools[1].name = "t1"
    /\ ret.cleaned_tools = <<"t2">>
    /\ registry["t1"] # "none" /\ registry["t2"] = "none"
    /\ _connections[ret.connection_id] = NoInfo

\* C17: a successful register_entry, register_tool or register_tools call leaves each name
\* that had an entry either with that entry unchanged, or with an entry that has the fields
\* of the old entry and of the new one, the values of the new one where it has the field
\* and those of the old one elsewhere.
C17_ShallowMerge ==
    [][(ret'.action \in {"register_entry", "register_tool", "register_tools"}
        /\ ret'.status = "success")
       => \A n \in ToolNames :
            LET prior == get_tool_details(catalog.tools, n)
                cur == get_tool_details(catalog'.tools, n) IN
            prior # <<>> =>
               /\ cur # <<>>
               /\ LET given == IF ret'.action = "register_entry"
                               THEN RegisterEntryDict(n, cur[1].description, "custom", "")
                               ELSE _build_entry([name |-> n, description |-> cur[1].description],
                                                 "custom", "") IN
                  \/ cur = prior
                  \/ /\ DOMAIN cur[1] = DOMAIN prior[1] \cup DOMAIN given
                     /\ \A f \in DOMAIN given : cur[1][f] = given[f]
                     /\ \A f \in DOMAIN prior[1] \ DOMAIN given : cur[1][f] = prior[1][f]]_vars

\* a register_entry on a name register_tool had registered: input_summary survives,
\* path is overwritten
C17_Witness ==
    /\ ret.action = "register_entry" /\ ret.status = "success"
    /\ ret.value # <<>>
    /\ "input_summary" \in DOMAIN ret.value[1]
    /\ ret.value[1].path = "tool.py"
    /\ LET cur == get_tool_details(catalog.tools, ret.value[1].name) IN
       /\ cur # <<>>
       /\ "input_summary" \in DOMAIN cur[1]
       /\ cur[1].input_summary = ret.value[1].input_summary
       /\ cur[1].path = "None"

\* the number of catalog entries with the name n
EntriesNamed(tools, n) == Cardinality({i \in DOMAIN tools : tools[i].name = n})

NoDuplicates(lst) == Cardinality(Range(lst)) = Len(lst)

C20_TimeoutsCapped ==
    LET ceiling == module_globals.API_TOOL_TIMEOUT_SECONDS IN
    /\ \A v \in {http_params.timeout, http_params.sse_read_timeout} :
         v # Absent => v.k = "fin" /\ v.n <= ceiling
    /\ \A v \in {params.timeout, params.sse_read_timeout} :
         v # None => ~PyLess(Fin(ceiling), v)

\* a direct sse_read_timeout above the ceiling reached the streamable HTTP transport as the
\* ceiling, next to a timeout taken from a STRANDS_MCP_TIMEOUT below the ceiling
C20_Witness ==
    /\ params.stage = "done"
    /\ params.direct = Num(MaxSeconds)
    /\ MaxSeconds > module_globals.API_TOOL_TIMEOUT_SECONDS
    /\ http_params.transport = "streamable_http"
    /\ http_params.sse_read_timeout = Fin(module_globals.API_TOOL_TIMEOUT_SECONDS)
    /\ http_params.timeout = module_globals.DEFAULT_MCP_TIMEOUT
    /\ http_params.timeout = Fin(2)

\* C22 (as claimed): a call_tool that passed its validation and returns after the
\* connection left the table returns what the remote call produced.
C22_CallSurvivesDisconnect ==
    [][\A t \in Threads :
         (/\ pc[t] \in {"remote_open", "remote_call"}
          /\ loc[t].action = "call_tool"
          /\ _connections[loc[t].connection_id] = NoInfo
          /\ ret'.thread = t /\ ret'.action = "call_tool")
         => ret'.text \in {"remote result", "Failed: remote call raised"}]_vars

\* the positions inside a `with mcp_client:` block
InCallLabels == {"connect_list", "remote_call", "load_list", "stream_call"}

C27_ConnectAtomic ==
    [][(ret'.action = "connect" /\ ret'.status = "success")
       => LET cid == ret'.connection_id IN
          \/ _connections[cid] = NoInfo
          \/ ~infos[_connections[cid]].is_active]_vars

\* C30 (as claimed): when disconnect(c, agent) returns success and reports no failed
\* tool, the agent registry holds no wrapper bound to c.
C30_WrappersTracked ==
    (/\ ret.action = "disconnect" /\ ret.status = "success"
     /\ ret.agent = "agent" /\ ret.failed_tools = <<>>)
    => \A n \in ToolNames : registry[n] # ret.connection_id

\* C21: the thread inside a `with _CONNECTION_LOCK:` section has no session open and is at
\* a position inside such a section, and while a thread is inside a `with mcp_client:`
\* block it does not hold the lock, so another thread waiting for the lock is held up
\* by no remote call.
C21_LockNotHeldAcrossCalls ==
    /\ \A t \in Threads :
         lock_owner = t => ~sess[t] /\ pc[t] \in LockedLabels
    /\ \A t \in Threads :
         (sess[t] \/ pc[t] = "lk_call") => lock_owner # t
    /\ \A t, u \in Threads :
         (pc[t] = "lk_call" /\ pc[u] \in LockAcquireLabels) => lock_owner = "none"

\* a call_tool is inside its remote call while the other thread is inside the locked
\* section of its disconnect of the same connection
C21_Witness ==
    \E t, u \in Threads :
       /\ pc[t] = "lk_call" /\ sess[t] /\ loc[t].action = "call_tool"
       /\ lock_owner = u /\ pc[u] = "lk_pop_in"
       /\ loc[u].connection_id = loc[t].connection_id

\* C24 (as claimed): both tools run their invocations on a pool of at most 4 workers, so
\* never more than 4 run at once and an invocation waits only while 4 others run; the
\* results returned hold each invocation once.
C24_WorkerPool ==
    /\ Cardinality(pool.running) <= 4
    /\ pool.pending # <<>> => Cardinality(pool.running) = 4
    /\ (ret.action \in {"batch", "tool_catalog"} /\ ret.status = "success")
       => /\ NoDuplicates(ret.value)
          /\ Range(ret.value) = 1..Len(ret.value)


\* C29: a terminal status is absorbing: once the job is COMPLETED, FAILED or TIMED_OUT,
\* no step (status, fetch, cancel, a further poll) changes the job's status
C29_TerminalAbsorbing ==
    [][(RESEARCH_JOBS # <<>> /\ RESEARCH_JOBS[1].status \in {"COMPLETED", "FAILED", "TIMED_OUT"})
         => (RESEARCH_JOBS' # <<>> /\ RESEARCH_JOBS'[1].status = RESEARCH_JOBS[1].status)]_vars


\* C25: the poller polls at most max_attempts times and, once it has ended, the job's status
\* is one of COMPLETED, FAILED, TIMED_OUT, CANCELLED (TIMED_OUT only after max_attempts
\* polls), completion_event is set and the poller is no longer in RESEARCH_POLLERS
C25_PollerTerminates ==
    RESEARCH_JOBS # <<>> =>
        LET job == RESEARCH_JOBS[1] IN
        /\ job.attempts <= job.max_attempts
        /\ (job.status = "TIMED_OUT" => job.attempts = job.max_attempts)
        /\ (poll_task.at = "done" =>
               /\ job.status \in TerminalStatuses
               /\ job.completion_event
               /\ RESEARCH_POLLERS = <<>>)


\* min(base * 2^(k-1), max) for finite base and max, without the intermediate power
RECURSIVE CappedBackoff(_, _, _)
CappedBackoff(base, max, k) ==
    IF k <= 1 \/ ~PyLess(base, max) THEN PyMin(base, max)
    ELSE CappedBackoff(PyDouble(base), max, k - 1)

\* C26: the configuration of a job satisfies initial_delay >= 0, base_backoff > 0,
\* max_backoff >= base_backoff and max_attempts >= 1, and during the sleep after the k-th
\* poll next_poll_in is min(base_backoff * 2^(k-1), max_backoff), never above max_backoff
C26_CappedBackoff ==
    RESEARCH_JOBS # <<>> =>
        LET job == RESEARCH_JOBS[1] IN
        /\ (PyLess(Fin(0), job.initial_delay_seconds) \/ job.initial_delay_seconds = Fin(0))
        /\ PyLess(Fin(0), job.base_backoff_seconds)
        /\ (PyLess(job.base_backoff_seconds, job.max_backoff_seconds)
              \/ job.max_backoff_seconds = job.base_backoff_seconds)
        /\ job.max_attempts >= 1
        /\ (poll_task.at = "sleep" /\ poll_task.attempt >= 1 =>
               /\ job.next_poll_in = CappedBackoff(job.base_backoff_seconds,
                                                   job.max_backoff_seconds, poll_task.attempt)
               /\ ~PyLess(job.max_backoff_seconds, job.next_poll_in))


\* C28: when two threads have registered different tool names at the same time (and
\* neither removed the other's name), every registered name is in the catalog file once
\* both have finished
C28_NoLostRegistration ==
    ((\A t \in Threads : cat_local[t].at = "done")
       /\ cat_local["T1"].names \cap cat_local["T2"].names = {})
    => \A t \in Threads :
          cat_local[t].op = "upsert" =>
              \A n \in cat_local[t].names : FirstIndex(catalog.tools, n) # 0

====
